---- MODULE Spec2Model ----
(***************************************************************************)
(* Model of the orchestration core of the Schneider AI code reviewer       *)
(* extension: the transport client and its operations (LLMClient,          *)
(* llmClient.ts), the analysis flow, its diagnostics and the analysis      *)
(* history (extension.ts), and the fix flow and score card of the panel    *)
(* (ChatbotViewProvider, chatbotView.ts).                                  *)
(***************************************************************************)
EXTENDS Integers, Sequences, FiniteSets, TLC

VARIABLES
    \* ---- LLMClient.makeRequest, one activation record per call ----
    pc,          \* position of each call: idle / sending / delaying / returned / thrown
    req,         \* the arguments of the call: endpoint, method, timeout
    attempt,     \* the loop variable `attempt`
    lastError,   \* the local `lastError`
    inflight,    \* the axios config of the attempt in flight (NoRequest when none)
    result,      \* the value returned to the caller
    thrown,      \* the error thrown to the caller
    delays,      \* the waits taken by this.delay, in order (ms)
    replies,     \* what the transport answered to each attempt, in order
    sent,        \* number of axios calls issued by the call
    \* ---- extension.ts: the analysis history and what startAnalysis updates ----
    analysisHistory,     \* the global `analysisHistory`, most recent first
    stored,              \* globalState value under 'schneider.analysisHistory'
    writes,              \* globalState.update calls not yet completed, oldest first
    task,                \* the startAnalysis activations: position, document, run
    clearPc,             \* position of clearAnalysisHistory: idle / confirming / saving
    clearNotice,         \* how the last clearAnalysisHistory ended
    lastAnalysisResult,  \* the global `lastAnalysisResult` (0 is null)
    diagnostics,         \* diagnosticCollection: per document, the run whose issues it shows
    statusBar,           \* what statusBarItem shows
    panel,               \* ChatbotViewProvider: currentAnalysisResult, currentCode
    now,                 \* the clock read by new Date() at each append
    runs,                \* number of analyses started so far
    activations,         \* number of times activate() ran after the first
    log,                 \* every entry put in the in-memory history since it was
                         \* last empty or loaded, most recent first (never cut)
    lastCompleted,       \* the in-memory history as it was right after the append
                         \* or clear whose write completed last
    \* ---- what an analysis result holds and where it is shown ----
    analysisResult,        \* the local `result` of each startAnalysis activation
    diagnosticCollection,  \* per document, the diagnostics shown in the editor
    webview,               \* the score card drawn by the panel's webview script
    \* ---- ChatbotViewProvider.handleFixCode ----
    fix,                   \* the handleFixCode activations: position, code given,
                           \* the local `fixedCode`, the answers received
    wire,                  \* the requests of the panel in flight
    \* ---- the public operations of LLMClient ----
    op,                    \* the operation calls: name, position, answer, outcome
    \* ---- the server: parse_llm_response and the score of a result ----
    parsed,                \* the last reply parsed and what the parse gave
    scored,                \* the last findings scored and their score
    \* ---- the editor: what startAnalysis and the save handler look at ----
    activeTextEditor,      \* vscode.window.activeTextEditor (its document, or "none")
    settings,              \* the configuration: autoAnalyzeOnSave and maxFileSize
    gate,                  \* startAnalysis before the analysis proper: position,
                           \* document, what triggered it, how it ended
    report,                \* what generateReport last sent to /generate_report
    resultDocument,        \* the document whose analysis lastAnalysisResult is
    \* ---- the panel: its webview's chat input and its message handlers ----
    chatInput,             \* whether the chat input and the send button are enabled
    chats,                 \* the handleChatMessage activations: position, the
                           \* messages posted to the webview, the reply
    fixMessages,           \* the messages each handleFixCode activation posted to
                           \* the webview, in order
    analysed               \* the code whose analysis currentAnalysisResult is

reqVars == <<pc, req, attempt, lastError, inflight, result, thrown, delays, replies, sent>>

histVars == <<analysisHistory, stored, writes, task, clearPc, clearNotice,
              lastAnalysisResult, diagnostics, statusBar, panel, now, runs,
              activations, log, lastCompleted>>

viewVars == <<analysisResult, diagnosticCollection, webview, fix, wire, op>>

serverVars == <<parsed, scored>>

editorVars == <<activeTextEditor, settings, gate, report, resultDocument>>

chatVars == <<chatInput, chats, fixMessages, analysed>>

vars == <<reqVars, histVars, viewVars, serverVars, editorVars, chatVars>>

(***************************************************************************)
(* Program constants of LLMClient                                          *)
(***************************************************************************)
retryAttempts == 2

defaultTimeout == 60000

BackoffBase == 1000

\* Identifiers of the calls that may be in flight at the same time.
MaxCalls == 2

Calls == 1..MaxCalls

NoError ==
    [isAxios |-> FALSE, status |-> 0, code |-> "none", message |-> <<"none", 0>>,
     url |-> "none", data |-> "none"]

NoRequest == [url |-> "none", method |-> "none", timeout |-> 0]

NoData == "none"

\* The requests the public methods of LLMClient hand to makeRequest.
Requests ==
    { [endpoint |-> "/analyze", method |-> "POST", timeout |-> defaultTimeout],
      [endpoint |-> "/chat",    method |-> "POST", timeout |-> 30000],
      [endpoint |-> "/health",  method |-> "GET",  timeout |-> 5000] }

ClientFaults == {400, 401, 403, 404}

ServerFaults == {500, 503}

Bodies == {"r1", "r2"}

\* What the network can answer to one attempt: an HTTP response, no answer
\* before the timeout, or no connection.
Responses ==
    { [kind |-> "response", status |-> 200, body |-> b] : b \in Bodies }
    \cup { [kind |-> "response", status |-> s, body |-> "err"] : s \in ClientFaults \cup ServerFaults }

Answers ==
    Responses \cup { [kind |-> "timeout", status |-> 0, body |-> "none"],
                     [kind |-> "network", status |-> 0, body |-> "none"] }

\* The answers used when two calls run concurrently.
FewAnswers ==
    { a \in Answers : a.kind = "timeout" \/ (a.status \in {200, 404, 500} /\ a.body # "r2") }

\* config.validateStatus
validateStatus(status) == status < 500

\* axios(config): settles the promise. A response whose status passes
\* validateStatus resolves; any other response, a timeout or a connection
\* failure rejects with an AxiosError that carries the request config and,
\* when there was a response, its status and body.
AxiosSettle(config, a) ==
    IF a.kind = "response" /\ validateStatus(a.status)
    THEN [ok |-> TRUE, status |-> a.status, data |-> a.body, error |-> NoError]
    ELSE [ok |-> FALSE, status |-> a.status, data |-> NoData,
          error |-> [isAxios |-> TRUE,
                     status  |-> IF a.kind = "response" THEN a.status ELSE 0,
                     code    |-> CASE a.kind = "timeout" -> "ECONNABORTED"
                                   [] a.kind = "network" -> "ERR_NETWORK"
                                   [] OTHER -> "ERR_BAD_RESPONSE",
                     message |-> <<"axios", 0>>,
                     url     |-> config.url,
                     data    |-> IF a.kind = "response" THEN a.body ELSE NoData]]

\* throw new Error(`HTTP ${response.status}: ...`)
HttpError(status) ==
    [isAxios |-> FALSE, status |-> 0, code |-> "none", message |-> <<"HTTP", status>>,
     url |-> "none", data |-> "none"]

\* The body of the try block after `await axios(config)`: what the attempt
\* yields, a value or a caught error.
AttemptOutcome(config, a) ==
    LET r == AxiosSettle(config, a) IN
    IF r.ok
    THEN IF r.status >= 400
         THEN [ok |-> FALSE, data |-> NoData, error |-> HttpError(r.status)]
         ELSE [ok |-> TRUE, data |-> r.data, error |-> NoError]
    ELSE [ok |-> FALSE, data |-> NoData, error |-> r.error]

\* A no-retry test that also gives up on a request that got no response.
IsNoRetryOrNoResponse(error) ==
    error.isAxios /\ (error.status = 0 \/ error.status \in {400, 401, 403, 404})

\* "Don't retry on certain errors": the test that breaks out of the loop.
IsNoRetry(error) ==
    error.isAxios /\ error.status # 0 /\ error.status \in {400, 401, 403, 404}

\* A loop that stops one attempt early.
LoopCondStrict(a) == a < retryAttempts

\* A loop that allows one attempt more.
LoopCondExtra(a) == a <= retryAttempts + 1

\* for (...; attempt <= this.retryAttempts; ...)
LoopCond(a) == a <= retryAttempts

\* if (attempt < this.retryAttempts)
ShouldDelay(a) == a < retryAttempts

\* A backoff that forgets the "+ 1": the first retry is immediate.
BackoffDelayZeroBased(a) == BackoffBase * a

\* this.delay(1000 * (attempt + 1))
BackoffDelay(a) == BackoffBase * (a + 1)

\* A catch block that keeps the first error it saw.
KeepFirstError(prev, e) == IF prev = NoError THEN e ELSE prev

\* lastError = error
AssignLastError(prev, e) == e

\* A loop counter kept in one place for all the calls.
SharedAttempt(c) == attempt[1]

\* `attempt` is declared by the for statement: each call reads its own.
LocalAttempt(c) == attempt[c]

\* The axios config built at the top of the try block.
MakeConfig(r) == [url |-> r.endpoint, method |-> r.method, timeout |-> r.timeout]

ReqInit ==
    /\ pc = [c \in Calls |-> "idle"]
    /\ req = [c \in Calls |-> [endpoint |-> "none", method |-> "none", timeout |-> 0]]
    /\ attempt = [c \in Calls |-> 0]
    /\ lastError = [c \in Calls |-> NoError]
    /\ inflight = [c \in Calls |-> NoRequest]
    /\ result = [c \in Calls |-> NoData]
    /\ thrown = [c \in Calls |-> NoError]
    /\ delays = [c \in Calls |-> <<>>]
    /\ replies = [c \in Calls |-> <<>>]
    /\ sent = [c \in Calls |-> 0]

\* Entering the loop body with loop variable a: either an attempt is sent
\* or the loop is left and lastError is thrown.
EnterLoop(c, r, a, err) ==
    /\ attempt' = [attempt EXCEPT ![c] = a]
    /\ IF LoopCond(a)
       THEN /\ pc' = [pc EXCEPT ![c] = "sending"]
            /\ inflight' = [inflight EXCEPT ![c] = MakeConfig(r)]
            /\ sent' = [sent EXCEPT ![c] = @ + 1]
            /\ thrown' = thrown
       ELSE /\ pc' = [pc EXCEPT ![c] = "thrown"]
            /\ inflight' = [inflight EXCEPT ![c] = NoRequest]
            /\ sent' = sent
            /\ thrown' = [thrown EXCEPT ![c] = err]

\* makeRequest(endpoint, method, data, timeout) is called.
CallMakeRequest(c, r) ==
    /\ pc[c] = "idle"
    /\ req' = [req EXCEPT ![c] = r]
    /\ EnterLoop(c, r, 0, NoError)
    /\ UNCHANGED <<lastError, result, delays, replies>>
    /\ UNCHANGED <<histVars, viewVars, serverVars, editorVars, chatVars>>

\* The attempt in flight settles with answer a.
Settle(c, a) ==
    /\ pc[c] = "sending"
    /\ replies' = [replies EXCEPT ![c] = Append(@, a)]
    /\ UNCHANGED <<histVars, viewVars, serverVars, editorVars, chatVars>>
    /\ LET o == AttemptOutcome(inflight[c], a)
           e == AssignLastError(lastError[c], o.error)
       IN
       IF o.ok
       THEN /\ pc' = [pc EXCEPT ![c] = "returned"]
            /\ result' = [result EXCEPT ![c] = o.data]
            /\ inflight' = [inflight EXCEPT ![c] = NoRequest]
            /\ UNCHANGED <<req, attempt, lastError, thrown, delays, sent>>
       ELSE /\ lastError' = [lastError EXCEPT ![c] = e]
            /\ IF IsNoRetry(o.error)
               THEN /\ pc' = [pc EXCEPT ![c] = "thrown"]
                    /\ thrown' = [thrown EXCEPT ![c] = e]
                    /\ inflight' = [inflight EXCEPT ![c] = NoRequest]
                    /\ UNCHANGED <<req, attempt, result, delays, sent>>
               ELSE IF ShouldDelay(LocalAttempt(c))
               THEN /\ pc' = [pc EXCEPT ![c] = "delaying"]
                    /\ delays' = [delays EXCEPT ![c] = Append(@, BackoffDelay(LocalAttempt(c)))]
                    /\ inflight' = [inflight EXCEPT ![c] = NoRequest]
                    /\ UNCHANGED <<req, attempt, result, thrown, sent>>
               ELSE /\ EnterLoop(c, req[c], LocalAttempt(c) + 1, e)
                    /\ UNCHANGED <<req, result, delays>>

\* The timer of this.delay fires: attempt++ and the loop goes on.
DelayDone(c) ==
    /\ pc[c] = "delaying"
    /\ EnterLoop(c, req[c], LocalAttempt(c) + 1, lastError[c])
    /\ UNCHANGED <<req, lastError, result, delays, replies>>
    /\ UNCHANGED <<histVars, viewVars, serverVars, editorVars, chatVars>>

(***************************************************************************)
(* extension.ts: the analysis history                                      *)
(***************************************************************************)
\* if (analysisHistory.length > 50) ... slice(0, 50)
HistoryCap == 50

\* Number of startAnalysis activations that may be in progress together.
MaxTasks == 2

\* Analyses started in one run of the history specification.
MaxRuns == 3

\* Analyses beyond the capacity in one run of the capacity specification.
ExtraRuns == 5

Tasks == 1..MaxTasks

Docs == {"a.py", "b.ts"}

NoPanel == [result |-> 0, code |-> "none", fileName |-> "none"]

IdleTask == [pc |-> "idle", doc |-> "none", run |-> 0]

\* The history left by n analyses of earlier sessions.
PastHistory(n) == [i \in 1..n |-> [timestamp |-> n + 1 - i]]

Take(h, n) == IF Len(h) > n THEN SubSeq(h, 1, n) ELSE h

\* An append that writes over the most recent entry.
UnshiftOverwrite(h, e) == IF h = <<>> THEN <<e>> ELSE <<e>> \o Tail(h)

\* analysisHistory.unshift(historyEntry)
Unshift(h, e) == <<e>> \o h

\* slice(-50): keeps the oldest entries' side of the cut.
TruncateTail(h) == IF Len(h) > HistoryCap THEN SubSeq(h, Len(h) - HistoryCap + 1, Len(h)) ELSE h

\* if (analysisHistory.length > 50) analysisHistory = analysisHistory.slice(0, 50)
Truncate(h) == IF Len(h) > HistoryCap THEN SubSeq(h, 1, HistoryCap) ELSE h

\* A load that ignores what is stored.
LoadNothing(s) == <<>>

\* loadAnalysisHistory: analysisHistory = globalState.get(key, [])
loadAnalysisHistory(s) == s

\* A clear that forgets the in-memory list.
ClearStorageOnly(h) == h

\* analysisHistory = []
ClearMemory(h) == <<>>

(***************************************************************************)
(* extension.ts: what an analysis result holds and how it is shown         *)
(***************************************************************************)
\* Number of lines of the documents under analysis.
LineCount == 2

\* Largest number of issues in one analysis result.
MaxIssues == 2

\* Issue.severity
Severities == {"critical", "error", "warning", "info"}

\* Issue.line as the backend may send it: in the document, zero, negative,
\* beyond the last line.
IssueLines == -1..(LineCount + 1)

\* The issues of the results: every line with one severity, every severity
\* on one line, and an issue that carries no line.
Issues ==
    { [line |-> l, severity |-> "error"] : l \in IssueLines }
    \cup { [line |-> 1, severity |-> v] : v \in Severities }
    \cup { [severity |-> "warning"] }

IssueLists == UNION { [1..n -> Issues] : n \in 0..MaxIssues }

NoResult == [score |-> 0, issues |-> <<>>]

\* The result of the analyses whose content does not matter.
DefaultResult == [score |-> 100, issues |-> <<>>]

Max(a, b) == IF a > b THEN a ELSE b

\* issue.line || 1
IssueLine(issue) ==
    IF "line" \in DOMAIN issue /\ issue.line # 0 THEN issue.line ELSE 1

\* const line = Math.max(0, (issue.line || 1) - 1)
DiagnosticLine(issue) == Max(0, IssueLine(issue) - 1)

\* A severity mapping that keeps `error` apart from `critical`.
SeverityErrorAsWarning(severity) ==
    IF severity = "critical" THEN "Error"
    ELSE IF severity \in {"error", "warning"} THEN "Warning"
    ELSE "Information"

\* "Determine severity"
DiagnosticSeverity(severity) ==
    IF severity = "critical" \/ severity = "error" THEN "Error"
    ELSE IF severity = "warning" THEN "Warning"
    ELSE "Information"

\* new vscode.Diagnostic(range, message, severity), with its tags
MapIssue(issue) ==
    [line     |-> DiagnosticLine(issue),
     severity |-> DiagnosticSeverity(issue.severity),
     tags     |-> IF issue.severity = "critical" THEN "Deprecated" ELSE "none"]

\* The array `diagnostics` built by the loop of showDiagnostics.
showDiagnostics(issues) == [k \in 1..Len(issues) |-> MapIssue(issues[k])]

\* A collection that adds the new diagnostics to those of the document.
MergeDiagnostics(prev, ds) == prev \o ds

\* diagnosticCollection.set(document.uri, diagnostics)
SetDiagnostics(prev, ds) == ds

\* The status bar after an analysis: $(check), $(warning) or $(error).
StatusBarBand(score) ==
    IF score >= 90 THEN "check"
    ELSE IF score >= 70 THEN "warning"
    ELSE "error"

\* scoreRating.textContent in the webview script
WebviewBand(score) ==
    IF score >= 80 THEN "Excellent"
    ELSE IF score >= 50 THEN "Needs Improvement"
    ELSE "Poor"

NoCard == [score |-> 0, rating |-> "hidden"]

\* The webview script's showAnalysisResults(data), on 'analysisComplete'.
ScoreCard(score) == [score |-> score, rating |-> WebviewBand(score)]

\* Number of handleFixCode activations that may be in progress together.
MaxFixRuns == 1

FixRuns == 1..MaxFixRuns

NoBody == [error |-> ""]

NoAnswer == [kind |-> "none", status |-> 0, body |-> NoBody]

IdleFix == [pc |-> "idle", given |-> "none", fixedCode |-> "none",
            notice |-> "none", fixReply |-> NoAnswer]

\* Number of operation calls of LLMClient that may be in progress together.
MaxOps == 2

OpCalls == 1..MaxOps

IdleOp == [name |-> "none", pc |-> "idle", reply |-> NoAnswer, message |-> <<>>]

\* The panel and the editor right after activate().
ViewInit ==
    /\ analysisResult = [t \in Tasks |-> NoResult]
    /\ diagnosticCollection = [d \in Docs |-> <<>>]
    /\ webview = NoCard
    /\ fix = [f \in FixRuns |-> IdleFix]
    /\ wire = {}
    /\ op = [i \in OpCalls |-> IdleOp]

\* The server before any reply of the model has come in.
NoParse == [reply |-> <<>>, pc |-> "idle",
            out |-> [raised |-> FALSE, value |-> <<>>, logged |-> FALSE, attempt |-> 0]]

NoScore == [pc |-> "idle", findings |-> <<>>, penalty |-> <<>>, result |-> NoResult]

ServerInit ==
    /\ parsed = NoParse
    /\ scored = NoScore

\* startAnalysis not yet called: no document looked at, nothing asked.
IdleGate == [pc |-> "idle", doc |-> "none", via |-> "none", saved |-> "none",
             maxLines |-> 0, autoAnalyze |-> FALSE, proceed |-> "none"]

\* No editor is open and the settings have their defaults:
\* config.get('autoAnalyzeOnSave', false), config.get('maxFileSize', 1000).
\* No report requested yet.
NoReport == [code |-> "none", fileName |-> "none", result |-> 0]

EditorInit ==
    /\ report = NoReport
    /\ resultDocument = "none"
    /\ activeTextEditor = "none"
    /\ settings = [autoAnalyzeOnSave |-> FALSE, maxFileSize |-> 1000]
    /\ gate = [t \in Tasks |-> IdleGate]

\* The state right after activate(), given what the storage holds.
\* Number of handleChatMessage activations that may be in progress together.
MaxChats == 1

ChatRuns == 1..MaxChats

IdleChat == [pc |-> "idle", posted |-> <<>>, reply |-> "none"]

\* The webview as its HTML makes it (the input enabled) and the provider
\* with no message handled.
ChatInit ==
    /\ chatInput = "enabled"
    /\ chats = [c \in ChatRuns |-> IdleChat]
    /\ fixMessages = [f \in FixRuns |-> <<>>]
    /\ analysed = "none"

HistInit(s) ==
    /\ stored = s
    /\ analysisHistory = loadAnalysisHistory(s)
    /\ writes = <<>>
    /\ task = [t \in Tasks |-> IdleTask]
    /\ clearPc = "idle"
    /\ clearNotice = "none"
    /\ lastAnalysisResult = 0
    /\ diagnostics = [d \in Docs |-> 0]
    /\ statusBar = "ready"
    /\ panel = NoPanel
    /\ now = Len(s)
    /\ runs = 0
    /\ activations = 0
    /\ log = s
    /\ lastCompleted = s
    /\ ViewInit
    /\ ServerInit
    /\ EditorInit
    /\ ChatInit

\* startAnalysis from the status bar update to `await
\* llmClient.analyzeCode(code, fileName)`, for the document d of the active
\* editor.
BeginAnalysis(t, d, cap) ==
    /\ task[t].pc = "idle"
    /\ runs < cap
    /\ runs' = runs + 1
    /\ task' = [task EXCEPT ![t] = [pc |-> "analyzing", doc |-> d, run |-> runs + 1]]
    /\ statusBar' = "analyzing"
    /\ diagnostics' = [x \in Docs |-> 0]
    /\ diagnosticCollection' = [x \in Docs |-> <<>>]
    /\ UNCHANGED <<analysisHistory, stored, writes, clearPc, clearNotice,
                   lastAnalysisResult, panel, now, activations, log, lastCompleted>>
    /\ UNCHANGED <<analysisResult, webview, fix, wire, op>>
    /\ UNCHANGED <<reqVars, serverVars, chatVars>>
    /\ UNCHANGED <<report, resultDocument>>

\* startAnalysis up to `await llmClient.analyzeCode(code, fileName)`, with
\* document d in the active editor, d having passed the checks of the file
\* type and of the file size.
StartAnalysis(t, d, cap) ==
    /\ BeginAnalysis(t, d, cap)
    /\ UNCHANGED <<activeTextEditor, settings, gate>>

\* analyzeCode resolves with the result res: the result is stored, the
\* diagnostics are shown when showInlineErrors is set, the entry is put in
\* the history and the history is handed to globalState.update, which is
\* awaited.
AnalyzeReturnsWith(t, res, showInline) ==
    /\ task[t].pc = "analyzing"
    /\ LET e == [timestamp |-> now + 1]
           h == Truncate(Unshift(analysisHistory, e))
       IN
       /\ analysisHistory' = h
       /\ writes' = Append(writes, [value |-> h, mem |-> h, owner |-> t])
       /\ log' = <<e>> \o log
    /\ now' = now + 1
    /\ lastAnalysisResult' = task[t].run
    /\ analysisResult' = [analysisResult EXCEPT ![t] = res]
    /\ IF showInline
       THEN /\ diagnostics' = [diagnostics EXCEPT ![task[t].doc] = task[t].run]
            /\ diagnosticCollection' =
                   [diagnosticCollection EXCEPT
                        ![task[t].doc] = SetDiagnostics(@, showDiagnostics(res.issues))]
       ELSE UNCHANGED <<diagnostics, diagnosticCollection>>
    /\ resultDocument' = task[t].doc
    /\ task' = [task EXCEPT ![t].pc = "saving"]
    /\ UNCHANGED <<stored, clearPc, clearNotice, statusBar, panel, runs,
                   activations, lastCompleted>>
    /\ UNCHANGED <<webview, fix, wire, op>>
    /\ UNCHANGED <<activeTextEditor, settings, gate, report>>
    /\ UNCHANGED <<reqVars, serverVars, chatVars>>

\* analyzeCode resolves, with the default configuration (showInlineErrors
\* is true).
AnalyzeReturns(t) == AnalyzeReturnsWith(t, DefaultResult, TRUE)

\* A catch block that also forgets the last result.
AnalyzeFailsForgetting(t) ==
    /\ task[t].pc = "analyzing"
    /\ statusBar' = "failed"
    /\ task' = [task EXCEPT ![t] = IdleTask]
    /\ lastAnalysisResult' = 0
    /\ UNCHANGED <<analysisHistory, stored, writes, clearPc, clearNotice,
                   diagnostics, panel, now, runs, activations, log, lastCompleted>>
    /\ UNCHANGED viewVars
    /\ UNCHANGED <<reqVars, serverVars, editorVars, chatVars>>

\* analyzeCode rejects: the catch block of startAnalysis.
AnalyzeFails(t) ==
    /\ task[t].pc = "analyzing"
    /\ statusBar' = "failed"
    /\ task' = [task EXCEPT ![t] = IdleTask]
    /\ UNCHANGED <<analysisHistory, stored, writes, clearPc, clearNotice,
                   lastAnalysisResult, diagnostics, panel, now, runs,
                   activations, log, lastCompleted>>
    /\ UNCHANGED viewVars
    /\ UNCHANGED <<reqVars, serverVars, editorVars, chatVars>>

\* A document without text.
EmptyDocument == "empty.py"

\* document.getText(): the text of a document is written as the document's
\* name, that of the empty document as the empty string.
getText(d) == IF d = EmptyDocument THEN "" ELSE d

\* The oldest pending globalState.update completes, and the function that
\* awaits it goes on: startAnalysis shows the result in the panel (stored in
\* the provider and drawn by the webview) and in the status bar (or, when
\* the write was rejected, runs its catch block); clearAnalysisHistory shows
\* its notice (or rejects).
UpdateCompletes(ok) ==
    /\ writes # <<>>
    /\ LET w == Head(writes) IN
       /\ writes' = Tail(writes)
       /\ stored' = IF ok THEN w.value ELSE stored
       /\ lastCompleted' = IF ok THEN w.mem ELSE lastCompleted
       /\ IF w.owner \in Tasks
          THEN /\ task' = [task EXCEPT ![w.owner] = IdleTask]
               /\ analysisResult' = [analysisResult EXCEPT ![w.owner] = NoResult]
               /\ panel' = IF ok
                           THEN [result |-> task[w.owner].run,
                                 code |-> getText(task[w.owner].doc),
                                 fileName |-> task[w.owner].doc]
                           ELSE panel
               /\ analysed' = IF ok THEN getText(task[w.owner].doc) ELSE analysed
               /\ webview' = IF ok THEN ScoreCard(analysisResult[w.owner].score)
                                   ELSE webview
               /\ statusBar' = IF ok THEN StatusBarBand(analysisResult[w.owner].score)
                                     ELSE "failed"
               /\ UNCHANGED <<clearPc, clearNotice>>
          ELSE /\ clearPc' = "idle"
               /\ clearNotice' = IF ok THEN "cleared" ELSE "rejected"
               /\ UNCHANGED <<task, panel, statusBar, analysisResult, webview, analysed>>
    /\ UNCHANGED <<analysisHistory, lastAnalysisResult, diagnostics, now, runs,
                   activations, log>>
    /\ UNCHANGED <<diagnosticCollection, fix, wire, op>>
    /\ UNCHANGED <<chatInput, chats, fixMessages>>
    /\ UNCHANGED <<reqVars, serverVars, editorVars>>

\* clearAnalysisHistory is called: the modal question is shown.
ClearAsk(cap) ==
    /\ clearPc = "idle"
    /\ runs < cap
    /\ clearPc' = "confirming"
    /\ clearNotice' = "none"
    /\ UNCHANGED <<analysisHistory, stored, writes, task, lastAnalysisResult,
                   diagnostics, statusBar, panel, now, runs, activations, log,
                   lastCompleted>>
    /\ UNCHANGED viewVars
    /\ UNCHANGED <<reqVars, serverVars, editorVars, chatVars>>

\* The user answers the question.
ClearAnswer(choice) ==
    /\ clearPc = "confirming"
    /\ IF choice = "Clear"
       THEN /\ analysisHistory' = ClearMemory(analysisHistory)
            /\ writes' = Append(writes, [value |-> <<>>, mem |-> analysisHistory', owner |-> 0])
            /\ log' = analysisHistory'
            /\ clearPc' = "saving"
            /\ UNCHANGED clearNotice
       ELSE /\ clearPc' = "idle"
            /\ clearNotice' = "cancelled"
            /\ UNCHANGED <<analysisHistory, writes, log>>
    /\ UNCHANGED <<stored, task, lastAnalysisResult, diagnostics, statusBar,
                   panel, now, runs, activations, lastCompleted>>
    /\ UNCHANGED viewVars
    /\ UNCHANGED <<reqVars, serverVars, editorVars, chatVars>>

\* The extension host is restarted: what was running is gone, pending
\* writes are lost, and activate() loads the history from the storage.
Restart(maxRestarts) ==
    /\ activations < maxRestarts
    /\ activations' = activations + 1
    /\ analysisHistory' = loadAnalysisHistory(stored)
    /\ log' = analysisHistory'
    /\ writes' = <<>>
    /\ task' = [t \in Tasks |-> IdleTask]
    /\ clearPc' = "idle"
    /\ clearNotice' = "none"
    /\ lastAnalysisResult' = 0
    /\ diagnostics' = [d \in Docs |-> 0]
    /\ statusBar' = "ready"
    /\ panel' = NoPanel
    /\ analysisResult' = [t \in Tasks |-> NoResult]
    /\ diagnosticCollection' = [d \in Docs |-> <<>>]
    /\ webview' = NoCard
    /\ fix' = [f \in FixRuns |-> IdleFix]
    /\ wire' = {}
    /\ op' = [i \in OpCalls |-> IdleOp]
    /\ chatInput' = "enabled"
    /\ chats' = [c \in ChatRuns |-> IdleChat]
    /\ fixMessages' = [f \in FixRuns |-> <<>>]
    /\ analysed' = "none"
    /\ resultDocument' = "none"
    /\ UNCHANGED <<stored, now, runs, lastCompleted>>
    /\ UNCHANGED <<activeTextEditor, settings, gate, report>>
    /\ UNCHANGED <<reqVars, serverVars>>

(***************************************************************************)
(* llmClient.ts: the public operations built on makeRequest                *)
(***************************************************************************)
serverUrl == "http://localhost:5000"

\* Statuses of server faults that handleError gives no message of their own.
GatewayFaults == {502}

\* The body of an error response of the backend: { error: ... }.
ErrBody == [error |-> "err"]

\* What the transport can answer to the last attempt of a request, short of
\* a success.
FailedAnswers ==
    { [kind |-> "response", status |-> s, body |-> ErrBody] :
          s \in ClientFaults \cup ServerFaults \cup GatewayFaults }
    \cup { [kind |-> "timeout", status |-> 0, body |-> NoBody],
           [kind |-> "network", status |-> 0, body |-> NoBody] }

\* The answers to a request whose successful responses carry these bodies.
AnswersWith(bodies) ==
    { [kind |-> "response", status |-> 200, body |-> d] : d \in bodies } \cup FailedAnswers

\* The same with one client fault, one server fault, a timeout and a lost
\* connection as the failures.
SomeAnswersWith(bodies) ==
    { a \in AnswersWith(bodies) : a.status \in {0, 200, 404, 500} }

\* What makeRequest gives its caller when the last attempt it made of
\* request r was answered by a: the data it returns, or the error of that
\* attempt, thrown by `throw lastError`.
LastAttempt(r, a) == AttemptOutcome(MakeConfig(r), a)

\* new Error(text)
PlainError(text) ==
    [isAxios |-> FALSE, status |-> 0, code |-> "none", message |-> <<text, 0>>,
     url |-> "none", data |-> "none"]

\* error.message, as the pieces of text it is made of
MessageOf(error) ==
    IF error.message[2] = 0
    THEN <<error.message[1]>>
    ELSE <<error.message[1], " ", ToString(error.message[2])>>

\* data?.error
HasErrorText(data) == "error" \in DOMAIN data /\ data.error # ""

\* An error handler with one message for every failure.
OperationFailed(error, operation) == <<operation, " failed">>

\* handleError(error, operation): the message of the Error it throws, as the
\* pieces of text it is made of.
handleError(error, operation) ==
    IF error.isAxios
    THEN IF error.status # 0
         THEN IF error.status = 401 \/ error.status = 403
              THEN <<"Authentication error. Please check backend API keys in .env file.">>
              ELSE IF error.status = 500
              THEN <<"Server error. Check backend logs for details.">>
              ELSE IF error.status = 503
              THEN <<"Service unavailable. Backend AI service may be down.">>
              ELSE <<operation, " failed (HTTP ", ToString(error.status), ")">>
                   \o (IF HasErrorText(error.data) THEN <<": ", error.data.error>> ELSE <<>>)
         ELSE <<"Cannot connect to backend server at ", serverUrl,
                ". Please ensure the Python backend is running. Start it with: python app.py">>
    ELSE <<operation, " failed: ">> \o MessageOf(error)

\* The bodies of the successful responses to /analyze with these scores.
AnalysisBodies(scores) ==
    { [success |-> TRUE, score |-> n, issues |-> <<>>] : n \in scores }
    \cup { [success |-> FALSE, score |-> 0, issues |-> <<>>] }

AnalyzeRequest == [endpoint |-> "/analyze", method |-> "POST", timeout |-> defaultTimeout]

\* An analyzeCode that does not take the score of the response.
analyzeCodeWithoutScore(o) ==
    IF o.ok /\ o.data.success
    THEN [ok |-> TRUE, value |-> [score |-> 0, issues |-> o.data.issues],
          message |-> <<>>]
    ELSE [ok |-> FALSE, value |-> NoResult, message |-> <<>>]

\* analyzeCode, given what its makeRequest call gave: the result it returns,
\* or the message of the Error it throws.
analyzeCode(o) ==
    IF o.ok /\ o.data.success
    THEN [ok |-> TRUE, value |-> [score |-> o.data.score, issues |-> o.data.issues],
          message |-> <<>>]
    ELSE [ok |-> FALSE, value |-> NoResult,
          message |-> handleError(IF o.ok
                                  THEN PlainError("Analysis failed: Invalid response from server")
                                  ELSE o.error,
                                  "Code analysis")]

\* The bodies of the successful responses to /fix.
FixBodies ==
    { [success |-> ok, fixed_code |-> c] : ok \in BOOLEAN, c \in {"", "fixed"} }
    \cup { [success |-> TRUE] }

FixAnswers == SomeAnswersWith(FixBodies)

FixRequest == [endpoint |-> "/fix", method |-> "POST", timeout |-> defaultTimeout]

\* if (response.success && response.fixed_code)
FixAccepted(data) ==
    data.success /\ "fixed_code" \in DOMAIN data /\ data.fixed_code # ""

\* A catch block that gives up the source text.
ReturnNothing(code) == ""

\* "Return original code on error": return code
ReturnOriginal(code) == code

\* fixCode(code, ...), given what its makeRequest call gave. Both the failed
\* request and the refused response end in the catch block.
fixCode(code, o) ==
    IF o.ok /\ FixAccepted(o.data)
    THEN [rejected |-> FALSE, value |-> o.data.fixed_code]
    ELSE [rejected |-> FALSE, value |-> ReturnOriginal(code)]

\* The operations whose failures go through handleError.
OperationNames == {"analyzeCode", "generateReport", "getStatistics", "getRules"}

\* The `operation` argument each of them gives to handleError.
Label(name) ==
    CASE name = "analyzeCode"    -> "Code analysis"
      [] name = "generateReport" -> "Report generation"
      [] name = "getStatistics"  -> "Statistics fetch"
      [] name = "getRules"       -> "Rules fetch"

\* The message of the Error each of them throws on a refused response.
Refusal(name) ==
    CASE name = "analyzeCode"    -> "Analysis failed: Invalid response from server"
      [] name = "generateReport" -> "Report generation failed"
      [] name = "getStatistics"  -> "Failed to fetch statistics"
      [] name = "getRules"       -> "Failed to fetch rules"

\* The arguments each of them gives to makeRequest.
RequestFor(name) ==
    CASE name = "analyzeCode"    -> AnalyzeRequest
      [] name = "generateReport" -> [endpoint |-> "/generate_report", method |-> "POST", timeout |-> 30000]
      [] name = "getStatistics"  -> [endpoint |-> "/statistics", method |-> "GET", timeout |-> 5000]
      [] name = "getRules"       -> [endpoint |-> "/rules?category=all", method |-> "GET", timeout |-> 10000]

\* The bodies of the successful responses to each of them.
ResponseBodies(name) ==
    IF name = "analyzeCode"
    THEN AnalysisBodies({DefaultResult.score})
    ELSE { [success |-> ok, statistics |-> st] : ok \in BOOLEAN, st \in {"", "stats"} }

\* if (response.success) / if (response.success && response.statistics)
Accepted(name, data) ==
    data.success /\ (name = "getStatistics" => data.statistics # "")

\* generateReport, getStatistics or getRules, given what its makeRequest
\* call gave: it returns, or throws the Error made by handleError.
otherOperation(name, o) ==
    IF o.ok /\ Accepted(name, o.data)
    THEN [ok |-> TRUE, value |-> NoResult, message |-> <<>>]
    ELSE [ok |-> FALSE, value |-> NoResult,
          message |-> handleError(IF o.ok THEN PlainError(Refusal(name)) ELSE o.error,
                                  Label(name))]

\* One of the operations is called.
CallOperation(i, name) ==
    /\ op[i].pc # "pending"
    /\ op' = [op EXCEPT ![i] = [IdleOp EXCEPT !.name = name, !.pc = "pending"]]
    /\ UNCHANGED <<analysisResult, diagnosticCollection, webview, fix, wire>>
    /\ UNCHANGED <<reqVars, histVars, serverVars, editorVars, chatVars>>

\* The answers the transport can give to the operations.
OperationAnswers == UNION { AnswersWith(ResponseBodies(name)) : name \in OperationNames }

\* The operation settles, the last attempt of its request answered by a.
OperationSettles(i, a) ==
    /\ op[i].pc = "pending"
    /\ a \in AnswersWith(ResponseBodies(op[i].name))
    /\ LET o == LastAttempt(RequestFor(op[i].name), a)
           r == IF op[i].name = "analyzeCode" THEN analyzeCode(o)
                                              ELSE otherOperation(op[i].name, o)
       IN
       op' = [op EXCEPT ![i].pc = IF r.ok THEN "returned" ELSE "thrown",
                        ![i].reply = a,
                        ![i].message = r.message]
    /\ UNCHANGED <<analysisResult, diagnosticCollection, webview, fix, wire>>
    /\ UNCHANGED <<reqVars, histVars, serverVars, editorVars, chatVars>>

(***************************************************************************)
(* chatbotView.ts: handleFixCode                                           *)
(***************************************************************************)
\* A re-analysis of the code that was given to the fix.
ReanalyzeGiven(given, fixedCode) == given

\* llmClient.analyzeCode(fixedCode, this.currentFileName)
ReanalyzedCode(given, fixedCode) == fixedCode

\* A catch block of the re-analysis that reports the failure to the webview.
ReportFail(messages) == Append(messages, "error")

\* catch (_reErr) { }: "Silent fail - fix still applied"
SilentFail(messages) == messages

\* A test that looks at the result only.
NoResultOnly(p) == p.result = 0

\* if (!this.currentAnalysisResult || !this.currentCode)
NothingToFix(p) == p.result = 0 \/ p.code \in {"none", ""}

\* The webview's fixCode() and the 'fixCode' message it sends: the webview
\* disables the chat input, and handleFixCode runs up to
\* `await this.llmClient.fixCode(this.currentCode, ...)`, posting 'fixing'
\* (on which the webview disables the input again), or returns at once with
\* a warning and no message.
HandleFixCode(f, cap) ==
    /\ fix[f].pc = "idle"
    /\ runs < cap
    /\ IF NothingToFix(panel)
       THEN /\ fix' = [fix EXCEPT ![f] = [IdleFix EXCEPT !.notice = "No analysis results to fix"]]
            /\ fix' # fix
            /\ fixMessages' = [fixMessages EXCEPT ![f] = <<>>]
            /\ UNCHANGED wire
       ELSE /\ fix' = [fix EXCEPT ![f] = [IdleFix EXCEPT !.pc = "fixing", !.given = panel.code]]
            /\ fixMessages' = [fixMessages EXCEPT ![f] = <<"fixing">>]
            /\ wire' = wire \cup {[run |-> f, endpoint |-> FixRequest.endpoint, code |-> panel.code]}
    /\ chatInput' = "disabled"
    /\ UNCHANGED <<chats, analysed>>
    /\ UNCHANGED <<analysisResult, diagnosticCollection, webview, op>>
    /\ UNCHANGED <<reqVars, histVars, serverVars, editorVars>>

\* The Auto-Fix button is pressed: it is part of the score card, which the
\* webview shows from the first 'analysisComplete' on.
FixCodeClicked(f, cap) ==
    /\ webview # NoCard
    /\ HandleFixCode(f, cap)

\* fixCode settles, its request answered by a: the code it returns becomes
\* the panel's code, 'codeFixed' is posted (the webview enables the input)
\* and the code is sent for re-analysis; were fixCode to throw, 'error'
\* would be posted (the webview enables the input).
FixCodeSettles(f, a) ==
    /\ fix[f].pc = "fixing"
    /\ LET r == fixCode(fix[f].given, LastAttempt(FixRequest, a))
           sentFix == [run |-> f, endpoint |-> FixRequest.endpoint, code |-> fix[f].given]
       IN
       IF r.rejected
       THEN /\ fix' = [fix EXCEPT ![f].pc = "idle", ![f].notice = "Fix failed",
                                  ![f].fixReply = a]
            /\ fixMessages' = [fixMessages EXCEPT ![f] = Append(@, "error")]
            /\ wire' = wire \ {sentFix}
            /\ UNCHANGED panel
       ELSE /\ fix' = [fix EXCEPT ![f].pc = "reanalyzing", ![f].fixedCode = r.value,
                                  ![f].notice = "Code fixed", ![f].fixReply = a]
            /\ panel' = [panel EXCEPT !.code = r.value]
            /\ fixMessages' = [fixMessages EXCEPT ![f] = Append(@, "codeFixed")]
            /\ wire' = (wire \ {sentFix})
                       \cup {[run |-> f, endpoint |-> AnalyzeRequest.endpoint,
                              code |-> ReanalyzedCode(fix[f].given, r.value)]}
    /\ chatInput' = "enabled"
    /\ UNCHANGED <<chats, analysed>>
    /\ UNCHANGED <<analysisResult, diagnosticCollection, webview, op>>
    /\ UNCHANGED <<analysisHistory, stored, writes, task, clearPc, clearNotice,
                   lastAnalysisResult, diagnostics, statusBar, now, runs,
                   activations, log, lastCompleted>>
    /\ UNCHANGED <<reqVars, serverVars, editorVars>>

\* The re-analysis settles, its request answered by a: the new result
\* becomes the panel's result and the webview draws its score; a failure is
\* silent.
ReanalyzeSettles(f, a) ==
    /\ fix[f].pc = "reanalyzing"
    /\ LET r == analyzeCode(LastAttempt(AnalyzeRequest, a)) IN
       /\ runs' = IF r.ok THEN runs + 1 ELSE runs
       /\ panel' = IF r.ok THEN [panel EXCEPT !.result = runs + 1] ELSE panel
       /\ webview' = IF r.ok THEN ScoreCard(r.value.score) ELSE webview
       /\ fix' = [fix EXCEPT ![f] = [IdleFix EXCEPT
                                        !.notice = IF r.ok THEN "Score updated"
                                                           ELSE fix[f].notice]]
       /\ fixMessages' = [fixMessages EXCEPT
                              ![f] = IF r.ok THEN Append(@, "analysisComplete")
                                             ELSE SilentFail(@)]
       /\ analysed' = IF r.ok THEN ReanalyzedCode(fix[f].given, fix[f].fixedCode)
                              ELSE analysed
    /\ wire' = { w \in wire : ~(w.run = f /\ w.endpoint = AnalyzeRequest.endpoint) }
    /\ UNCHANGED <<chatInput, chats>>
    /\ UNCHANGED <<analysisResult, diagnosticCollection, op>>
    /\ UNCHANGED <<analysisHistory, stored, writes, task, clearPc, clearNotice,
                   lastAnalysisResult, diagnostics, statusBar, now,
                   activations, log, lastCompleted>>
    /\ UNCHANGED <<reqVars, serverVars, editorVars>>

(***************************************************************************)
(* llmClient.ts and chatbotView.ts: the chat                               *)
(***************************************************************************)
ChatRequest == [endpoint |-> "/chat", method |-> "POST", timeout |-> 30000]

\* A response of the backend that holds no JSON object.
NullBody == [null |-> TRUE]

\* The bodies of the successful responses to /chat.
ChatBodies ==
    { [success |-> ok, reply |-> text] : ok \in BOOLEAN, text \in {"", "answer"} }
    \cup { [success |-> TRUE], [reply |-> "answer"], NullBody }

ChatAnswers == AnswersWith(ChatBodies)

\* handleChatError(error): the text it returns.
handleChatError(error) ==
    IF error.isAxios /\ error.status = 500
    THEN "I encountered an internal error. The backend AI service may be experiencing issues. Please try again in a moment."
    ELSE IF error.isAxios /\ error.status = 0
    THEN "I cannot reach the backend server. Please ensure it is running and try again."
    ELSE "I apologize, but I encountered an unexpected error. Please check the backend logs and try again."

\* A catch block that hands the error on to the caller.
Rethrow(error) == [rejected |-> TRUE, value |-> "none"]

\* catch (error) { return this.handleChatError(error); }
ReturnChatError(error) == [rejected |-> FALSE, value |-> handleChatError(error)]

\* chat(message, context), given what its makeRequest call gave. Reading
\* `success` of a response that is no object throws a TypeError inside the
\* try block.
chat(o) ==
    IF ~o.ok
    THEN ReturnChatError(o.error)
    ELSE IF o.data = NullBody
    THEN ReturnChatError(PlainError("TypeError"))
    ELSE IF "success" \in DOMAIN o.data /\ o.data.success
    THEN [rejected |-> FALSE,
          value |-> IF "reply" \in DOMAIN o.data /\ o.data.reply # ""
                    THEN o.data.reply
                    ELSE "No response from AI"]
    ELSE [rejected |-> FALSE,
          value |-> "I apologize, but I encountered an error. Please try again."]

\* The webview's sendMessage() and the 'chat' message it sends:
\* handleChatMessage runs up to `await this.llmClient.chat(message,
\* context)`, posting 'thinking', on which the webview disables the input.
\* A message can be sent only while the input and the send button are
\* enabled.
HandleChatMessage(c) ==
    /\ chats[c].pc = "idle"
    /\ chatInput = "enabled"
    /\ chats' = [chats EXCEPT ![c] = [pc |-> "thinking", posted |-> <<"thinking">>,
                                      reply |-> "none"]]
    /\ chatInput' = "disabled"
    /\ UNCHANGED <<fixMessages, analysed>>
    /\ UNCHANGED <<reqVars, histVars, viewVars, serverVars, editorVars>>

\* chat settles, its request answered by a: the reply is posted as
\* 'chatReply' (an error thrown by chat as 'error'), and the webview
\* enables the input.
ChatSettles(c, a) ==
    /\ chats[c].pc = "thinking"
    /\ LET r == chat(LastAttempt(ChatRequest, a)) IN
       chats' = [chats EXCEPT ![c] = [pc |-> "idle",
                                      posted |-> Append(@.posted, IF r.rejected THEN "error"
                                                                               ELSE "chatReply"),
                                      reply |-> r.value]]
    /\ chatInput' = "enabled"
    /\ UNCHANGED <<fixMessages, analysed>>
    /\ UNCHANGED <<reqVars, histVars, viewVars, serverVars, editorVars>>

(***************************************************************************)
(* extension.ts: the checks startAnalysis and the save handler make before *)
(* an analysis                                                             *)
(***************************************************************************)
\* Object.values(SUPPORTED_LANGUAGES).flat()
SUPPORTED_LANGUAGES ==
    {"py", "pyw", "st", "iec", "js", "jsx", "ts", "tsx", "c", "h", "cpp", "hpp",
     "cc", "cxx", "hh", "java", "json", "xml", "md"}

isSupportedFileType(ext) == ext \in SUPPORTED_LANGUAGES

\* The files of the workspace folder /w: the two documents of the other
\* sections, a text file, a file named md that has no extension, and a
\* file whose name is in capitals.
Files == Docs \cup {"notes.txt", "md", "NOTES.MD"}

\* name.split('.') for the names of the files
SplitName(name) ==
    CASE name = "a.py"      -> <<"a", "py">>
      [] name = "b.ts"      -> <<"b", "ts">>
      [] name = "notes.txt" -> <<"notes", "txt">>
      [] name = "md"        -> <<"md">>
      [] name = "NOTES.MD"  -> <<"NOTES", "MD">>

\* document.fileName.split('.') for the full path of the file named name:
\* the directory /w has no dot, so the first piece is the directory followed
\* by the first piece of the name.
SplitPath(name) ==
    <<"/w/" \o SplitName(name)[1]>> \o Tail(SplitName(name))

\* Array.pop(): the last element
Pop(parts) == parts[Len(parts)]

\* String.toLowerCase(), for the pieces that are not in lower case already
toLowerCase(text) ==
    CASE text = "MD"       -> "md"
      [] text = "NOTES"    -> "notes"
      [] text = "/w/NOTES" -> "/w/notes"
      [] OTHER             -> text

\* startAnalysis: fileName.split('.').pop()?.toLowerCase(), fileName being
\* document.fileName.split(/[\\/]/).pop(), the name without its directory
fileExtension(d) == toLowerCase(Pop(SplitName(d)))

\* the save handler: document.fileName.split('.').pop()?.toLowerCase(),
\* document.fileName being the full path
fileExt(d) == toLowerCase(Pop(SplitPath(d)))

\* Lines of a document longer than the default maxFileSize.
LongDocument == 1200

\* document.lineCount
lineCount(d) == IF d = "b.ts" THEN LongDocument ELSE LineCount

\* A size check that lets every document through.
NeverTooLong(lines, maxLines) == FALSE

\* if (document.lineCount > maxLines)
TooLong(lines, maxLines) == lines > maxLines

\* The save handler's conditions:
\* if (autoAnalyze && document.lineCount <= maxLines)
\*     if (fileExt && isSupportedFileType(fileExt))
SaveTriggers(d) ==
    /\ settings.autoAnalyzeOnSave
    /\ lineCount(d) <= settings.maxFileSize
    /\ isSupportedFileType(fileExt(d))

\* Analyses started in one run of the specification of the checks.
GateRuns == 2

\* What is left alone by a startAnalysis that returns before the analysis.
NoAnalysis ==
    /\ UNCHANGED <<activeTextEditor, settings, report, resultDocument>>
    /\ UNCHANGED <<reqVars, histVars, viewVars, serverVars, chatVars>>

\* onDidChangeActiveTextEditor: the user moves to the document d (or closes
\* the last editor); the status bar tells whether the file is supported.
ChangeActiveEditor(d) ==
    /\ d # activeTextEditor
    /\ activeTextEditor' = d
    /\ statusBar' = IF d = "none" THEN statusBar
                    ELSE IF isSupportedFileType(fileExt(d)) THEN "ready"
                    ELSE "unsupported"
    /\ UNCHANGED <<settings, gate, report, resultDocument>>
    /\ UNCHANGED <<analysisHistory, stored, writes, task, clearPc, clearNotice,
                   lastAnalysisResult, diagnostics, panel, now, runs,
                   activations, log, lastCompleted>>
    /\ UNCHANGED <<reqVars, viewVars, serverVars, chatVars>>

\* The user changes the settings autoAnalyzeOnSave and maxFileSize.
ChangeSettings(auto, maxLines) ==
    /\ settings # [autoAnalyzeOnSave |-> auto, maxFileSize |-> maxLines]
    /\ settings' = [autoAnalyzeOnSave |-> auto, maxFileSize |-> maxLines]
    /\ UNCHANGED <<activeTextEditor, gate, report, resultDocument>>
    /\ UNCHANGED <<reqVars, histVars, viewVars, serverVars, chatVars>>

\* startAnalysis from its call to the status bar update: the checks of the
\* editor, of the file type and of the file size. `via` tells what called
\* it and `saved` the document whose save did.
startAnalysis(t, via, saved, cap) ==
    /\ task[t].pc = "idle"
    /\ gate[t].pc # "asking"
    /\ LET d    == activeTextEditor
           call == [IdleGate EXCEPT !.doc = d, !.via = via, !.saved = saved,
                                    !.maxLines = settings.maxFileSize,
                                    !.autoAnalyze = settings.autoAnalyzeOnSave]
       IN
       IF d = "none"
       THEN /\ gate' = [gate EXCEPT ![t] = [call EXCEPT !.pc = "no editor"]]
            /\ gate' # gate
            /\ NoAnalysis
       ELSE IF ~isSupportedFileType(fileExtension(d))
       THEN /\ gate' = [gate EXCEPT ![t] = [call EXCEPT !.pc = "unsupported"]]
            /\ gate' # gate
            /\ NoAnalysis
       ELSE IF TooLong(lineCount(d), settings.maxFileSize)
       THEN /\ gate' = [gate EXCEPT ![t] = [call EXCEPT !.pc = "asking"]]
            /\ NoAnalysis
       ELSE /\ gate' = [gate EXCEPT ![t] = [call EXCEPT !.pc = "passed"]]
            /\ BeginAnalysis(t, d, cap)
            /\ UNCHANGED <<activeTextEditor, settings>>

\* onDidSaveTextDocument: the document d is saved.
OnDidSaveTextDocument(t, d, cap) ==
    /\ SaveTriggers(d)
    /\ startAnalysis(t, "save", d, cap)

\* The user answers the warning about the size of the file: the analysis
\* goes on for 'Analyze Anyway' alone, with the document startAnalysis read
\* before it asked.
AnswerTooLong(t, proceed, cap) ==
    /\ gate[t].pc = "asking"
    /\ IF proceed = "Analyze Anyway"
       THEN /\ gate' = [gate EXCEPT ![t].pc = "passed", ![t].proceed = proceed]
            /\ BeginAnalysis(t, gate[t].doc, cap)
            /\ UNCHANGED <<activeTextEditor, settings>>
       ELSE /\ gate' = [gate EXCEPT ![t].pc = "cancelled", ![t].proceed = proceed]
            /\ NoAnalysis

(***************************************************************************)
(* extension.ts: generateReport                                            *)
(***************************************************************************)
\* The command schneider.generateReport with a result at hand: the source
\* text and the file name are read from the active editor ('' and
\* 'code_analysis' without one), the issues, score and grade from
\* lastAnalysisResult, and all are sent to /generate_report. Nothing of
\* the extension's state changes after the request. Without a result the
\* command shows a warning and does nothing.
generateReport ==
    /\ lastAnalysisResult # 0
    /\ report' = [code     |-> IF activeTextEditor = "none" THEN ""
                               ELSE getText(activeTextEditor),
                  fileName |-> IF activeTextEditor = "none" THEN "code_analysis"
                               ELSE activeTextEditor,
                  result   |-> lastAnalysisResult]
    /\ UNCHANGED <<activeTextEditor, settings, gate, resultDocument>>
    /\ UNCHANGED <<reqVars, histVars, viewVars, serverVars, chatVars>>

(***************************************************************************)
(* The server: parse_llm_response, as the project guide documents it       *)
(***************************************************************************)
\* Longest reply of the model, in tokens.
MaxReply == 4

\* A reply is a sequence of tokens: the brackets and the comma of JSON, an
\* object literal (a finding), white space, a word of prose, and the two
\* fence markers that parse_llm_response removes ("fence json" is three
\* backquotes followed by json, "fence" is three backquotes).
Tokens == {"[", "]", ",", "{}", " ", "text", "fence json", "fence"}

ShortReplies == UNION { [1..k -> Tokens] : k \in 0..MaxReply }

\* str.strip(): the text without the white space at its two ends
strip(s) ==
    LET inked == { i \in 1..Len(s) : s[i] # " " } IN
    IF inked = {} THEN <<>>
    ELSE SubSeq(s, CHOOSE i \in inked : \A j \in inked : i <= j,
                   CHOOSE i \in inked : \A j \in inked : j <= i)

\* str.startswith('[')
startswith(s, tok) == s # <<>> /\ Head(s) = tok

\* str.replace(tok, '')
replace(s, tok) == SelectSeq(s, LAMBDA x : x # tok)

\* The grammar of JSON arrays over tokens without white space: brackets
\* are balanced, the outer one closes at the end, and each token is one
\* that may follow the token before it.
IsJsonArray(t) ==
    LET Depth(i) ==
            Cardinality({ j \in 1..i : t[j] = "[" }) - Cardinality({ j \in 1..i : t[j] = "]" })
        MayFollow(a, b) ==
            CASE a = "["  -> b \in {"[", "{}", "]"}
              [] a = "{}" -> b \in {",", "]"}
              [] a = "]"  -> b \in {",", "]"}
              [] a = ","  -> b \in {"{}", "["}
              [] OTHER    -> FALSE
    IN
    /\ Len(t) >= 2
    /\ t[1] = "["
    /\ t[Len(t)] = "]"
    /\ \A i \in 1..(Len(t) - 1) : Depth(i) > 0 /\ MayFollow(t[i], t[i + 1])
    /\ Depth(Len(t)) = 0

\* json.loads(s): the value (written without white space, which json.loads
\* skips between tokens), or JSONDecodeError.
json_loads(s) ==
    LET t == SelectSeq(s, LAMBDA x : x # " ") IN
    IF t = <<"{}">> \/ IsJsonArray(t)
    THEN [ok |-> TRUE, value |-> t]
    ELSE [ok |-> FALSE, value |-> <<>>]

\* re.search(r'\[[\s\S]*\]', s): from the first '[' to the last ']' after
\* it; <<>> stands for None.
re_search(s) ==
    LET opens  == { i \in 1..Len(s) : s[i] = "[" }
        closes == { j \in 1..Len(s) : s[j] = "]" }
        first  == CHOOSE i \in opens : \A j \in opens : i <= j
        last   == CHOOSE i \in closes : \A j \in closes : j <= i
    IN IF opens = {} \/ closes = {} \/ last < first
       THEN <<>>
       ELSE SubSeq(s, first, last)

\* return []
EmptyList == <<"[", "]">>

\* An except clause that lets the error through.
Uncaught(n) ==
    [raised |-> TRUE, value |-> <<>>, logged |-> FALSE, attempt |-> n]

\* except json.JSONDecodeError: logger.error(...); return []
ExceptJSONDecodeError(n) ==
    [raised |-> FALSE, value |-> EmptyList, logged |-> TRUE, attempt |-> n]

\* parse_llm_response(ai_response): what it returns (or raises), whether it
\* logged a failure, and the attempt that ended it.
parse_llm_response(ai_response) ==
    LET clean      == replace(replace(ai_response, "fence json"), "fence")
        json_match == re_search(ai_response)
        attempt_   == IF startswith(strip(ai_response), "[") THEN 1
                      ELSE IF startswith(strip(clean), "[") THEN 2
                      ELSE IF json_match # <<>> THEN 3
                      ELSE 4
        text       == CASE attempt_ = 1 -> ai_response
                        [] attempt_ = 2 -> clean
                        [] attempt_ = 3 -> json_match
                        [] OTHER        -> <<>>
    IN IF attempt_ = 4
       THEN [raised |-> FALSE, value |-> EmptyList, logged |-> FALSE, attempt |-> 4]
       ELSE IF json_loads(text).ok
            THEN [raised |-> FALSE, value |-> json_loads(text).value,
                  logged |-> FALSE, attempt |-> attempt_]
            ELSE ExceptJSONDecodeError(attempt_)

\* What the caller of parse_llm_response has in hand afterwards: the value
\* returned, or the exception.
CallerSees(out) == [raised |-> out.raised, value |-> out.value]

\* The arrays a reply may hold bare.
BareArrays == { a \in ShortReplies : a # <<>> /\ a = strip(a) /\ json_loads(a).ok /\ Head(a) = "[" }

\* Prose before and after a fenced block.
Preambles == { <<>>, <<"text", " ">>, <<"[", "text", "]", " ">> }

Postscripts == { <<>>, <<" ", "text">> }

\* A fenced block with prose around it.
Fenced(pre, a, post) == pre \o <<"fence json">> \o a \o <<"fence">> \o post

\* Every short reply, and every bare array in a fenced block.
Replies ==
    ShortReplies
    \cup { Fenced(pre, a, post) : pre \in Preambles, a \in BareArrays, post \in Postscripts }

\* The model replies to the request the server is waiting on, and the
\* server parses the reply.
ReplyArrives ==
    /\ parsed.pc = "idle"
    /\ \E r \in Replies :
           parsed' = [reply |-> r, pc |-> "done", out |-> parse_llm_response(r)]
    /\ UNCHANGED scored
    /\ UNCHANGED <<reqVars, histVars, viewVars, editorVars, chatVars>>

\* The request is answered; the server waits for the next one.
ReplyHandled ==
    /\ parsed.pc = "done"
    /\ parsed' = NoParse
    /\ UNCHANGED scored
    /\ UNCHANGED <<reqVars, histVars, viewVars, editorVars, chatVars>>

(***************************************************************************)
(* The server: the score of a result.  The scoring code of the backend is  *)
(* not among the sources, which hold its caller (analyzeCode) and the      *)
(* declaration of the result; it is modelled from the ScoreEngine section  *)
(* of the specification: a penalty per severity taken from 100, one        *)
(* warning alone giving 90, the score kept within 0..100.  The penalties   *)
(* the specification leaves open are inputs.                               *)
(***************************************************************************)
Penalties ==
    [critical : {0, 20, 40}, error : {0, 10, 20}, warning : {10}, info : {0, 5}]

RECURSIVE TotalPenalty(_, _)
TotalPenalty(F, w) ==
    IF F = <<>> THEN 0 ELSE w[Head(F).severity] + TotalPenalty(Tail(F), w)

score(F, w) == Max(0, 100 - TotalPenalty(F, w))

\* A request for an analysis is served: the server scores the findings F
\* and answers with them and their score; analyzeCode returns the result to
\* the extension.
AnalysisServed ==
    /\ scored.pc = "idle"
    /\ \E F \in IssueLists : \E w \in Penalties :
           LET a == [kind |-> "response", status |-> 200,
                     body |-> [success |-> TRUE, score |-> score(F, w), issues |-> F]]
           IN scored' = [pc |-> "done", findings |-> F, penalty |-> w,
                         result |-> analyzeCode(LastAttempt(AnalyzeRequest, a)).value]
    /\ UNCHANGED parsed
    /\ UNCHANGED <<reqVars, histVars, viewVars, editorVars, chatVars>>

\* The result is taken; the next request may come.
ResultTaken ==
    /\ scored.pc = "done"
    /\ scored' = NoScore
    /\ UNCHANGED parsed
    /\ UNCHANGED <<reqVars, histVars, viewVars, editorVars, chatVars>>

(***************************************************************************)
(* Specifications                                                          *)
(***************************************************************************)
\* One makeRequest call at a time, every answer of the transport.
NextReq ==
    \/ \E r \in Requests : CallMakeRequest(1, r)
    \/ \E a \in Answers : Settle(1, a)
    \/ DelayDone(1)

InitEmpty == ReqInit /\ HistInit(<<>>)

SpecReq == InitEmpty /\ [][NextReq]_vars

\* Every attempt carries a finite timeout, so it settles; a timer fires.
FairSpecReq ==
    SpecReq /\ WF_vars(\E a \in Answers : Settle(1, a)) /\ WF_vars(DelayDone(1))

\* The request of the c-th concurrent call: an analysis, a chat message, a
\* health check.
RequestOf(c) ==
    CHOOSE r \in Requests :
        r.endpoint = (IF c = 1 THEN "/analyze" ELSE IF c = 2 THEN "/chat" ELSE "/health")

\* Concurrent makeRequest calls interleaved.
NextConc ==
    \E c \in Calls :
        \/ CallMakeRequest(c, RequestOf(c))
        \/ \E a \in FewAnswers : Settle(c, a)
        \/ DelayDone(c)

SpecConc == InitEmpty /\ [][NextConc]_vars

MaxRestarts == 1

\* The history over a few analyses, clears and a restart, starting from an
\* empty storage or from one that earlier sessions left one short of full.
NextHist ==
    \/ \E t \in Tasks : StartAnalysis(t, "a.py", MaxRuns)
    \/ \E t \in Tasks : AnalyzeReturns(t)
    \/ \E t \in Tasks : AnalyzeFails(t)
    \/ \E ok \in BOOLEAN : UpdateCompletes(ok)
    \/ ClearAsk(MaxRuns)
    \/ \E choice \in {"Clear", "Cancel", "dismissed"} : ClearAnswer(choice)
    \/ Restart(MaxRestarts)

InitHist == ReqInit /\ \E n \in {0, HistoryCap - 1} : HistInit(PastHistory(n))

SpecHist == InitHist /\ [][NextHist]_vars

\* The history filled from empty to beyond its capacity, one analysis after
\* the other.
NextCap ==
    \/ StartAnalysis(1, "a.py", HistoryCap + ExtraRuns)
    \/ AnalyzeReturns(1)
    \/ AnalyzeFails(1)
    \/ UpdateCompletes(TRUE)

SpecCap == InitEmpty /\ [][NextCap]_vars

\* Scores between the thresholds of the status bar (90, 70) and those of
\* the webview (80, 50), and above them all.
SomeScores == {60, 85, 95}

\* The results of the analyses when only the score matters.
ScoredResults == { [score |-> n, issues |-> <<>>] : n \in SomeScores }

\* One successful analysis at a time and the fix flow of the panel, with
\* every kind of answer to the fix request and to the re-analysis request.
NextFix ==
    \/ StartAnalysis(1, "b.ts", MaxRuns)
    \/ \E res \in ScoredResults : AnalyzeReturnsWith(1, res, TRUE)
    \/ UpdateCompletes(TRUE)
    \/ \E f \in FixRuns : HandleFixCode(f, MaxRuns)
    \/ \E f \in FixRuns : \E a \in FixAnswers : FixCodeSettles(f, a)
    \/ \E f \in FixRuns : \E a \in SomeAnswersWith(AnalysisBodies(SomeScores)) :
           ReanalyzeSettles(f, a)

SpecFix == InitEmpty /\ [][NextFix]_vars

\* Concurrent analyses of two documents that all succeed, and clears, on a
\* history that earlier sessions left one short of full.
NextSer ==
    \/ \E t \in Tasks : \E d \in Docs : StartAnalysis(t, d, MaxRuns)
    \/ \E t \in Tasks : AnalyzeReturns(t)
    \/ UpdateCompletes(TRUE)
    \/ ClearAsk(MaxRuns)
    \/ \E choice \in {"Clear", "Cancel"} : ClearAnswer(choice)

InitSer == ReqInit /\ HistInit(PastHistory(HistoryCap - 1))

SpecSer == InitSer /\ [][NextSer]_vars

\* Analyses started in one run of the diagnostics specification.
DiagRuns == 2

\* The results of the analyses when only the issues matter.
IssueResults == { [score |-> DefaultResult.score, issues |-> fs] : fs \in IssueLists }

\* Analyses of one document, one after the other, whose results carry
\* every list of issues, with showInlineErrors set or not.
NextDiag ==
    \/ StartAnalysis(1, "a.py", DiagRuns)
    \/ \E res \in IssueResults : \E showInline \in BOOLEAN :
           AnalyzeReturnsWith(1, res, showInline)
    \/ AnalyzeFails(1)
    \/ UpdateCompletes(TRUE)

SpecDiag == InitEmpty /\ [][NextDiag]_vars

\* The results whose issues are taken among two.
TwoIssueResults ==
    { res \in IssueResults :
          \A k \in 1..Len(res.issues) :
              res.issues[k] \in {[line |-> 1, severity |-> "warning"],
                                 [line |-> 2, severity |-> "error"]} }

\* Concurrent analyses of one document, with showInlineErrors set or not:
\* a result may arrive while the diagnostics of another are shown.
NextShow ==
    \/ \E t \in Tasks : StartAnalysis(t, "a.py", DiagRuns)
    \/ \E t \in Tasks : \E res \in TwoIssueResults : \E showInline \in BOOLEAN :
           AnalyzeReturnsWith(t, res, showInline)
    \/ UpdateCompletes(TRUE)

SpecShow == InitEmpty /\ [][NextShow]_vars

\* Concurrent analyses of the two documents, each result holding a finding.
NextDocs ==
    \/ \E t \in Tasks : \E d \in Docs : StartAnalysis(t, d, DiagRuns)
    \/ \E t \in Tasks : \E res \in { r \in TwoIssueResults : Len(r.issues) = 1 } :
           AnalyzeReturnsWith(t, res, TRUE)
    \/ UpdateCompletes(TRUE)

SpecDocs == InitEmpty /\ [][NextDocs]_vars

\* The editor, the settings, the command and the save handler, and the
\* analyses they start, one at a time.
NextGate ==
    \/ \E d \in Files \cup {"none"} : ChangeActiveEditor(d)
    \/ \E auto \in BOOLEAN : \E maxLines \in {1, 1000} : ChangeSettings(auto, maxLines)
    \/ startAnalysis(1, "command", "none", GateRuns)
    \/ \E d \in Files : OnDidSaveTextDocument(1, d, GateRuns)
    \/ \E proceed \in {"Analyze Anyway", "Cancel", "none"} :
           AnswerTooLong(1, proceed, GateRuns)
    \/ AnalyzeReturns(1)
    \/ AnalyzeFails(1)
    \/ UpdateCompletes(TRUE)

SpecGate == InitEmpty /\ [][NextGate]_vars

\* The server parses one reply after the other, every reply of the model.
NextParse ==
    \/ ReplyArrives
    \/ ReplyHandled

SpecParse == InitEmpty /\ [][NextParse]_vars

\* The server scores one list of findings after the other, every list of
\* the model under every choice of penalties.
NextScore ==
    \/ AnalysisServed
    \/ ResultTaken

SpecScore == InitEmpty /\ [][NextScore]_vars

\* Number of analyses before a report.
ReportRuns == 2

\* Analyses of the document of the active editor, one at a time, changes
\* of the active editor and reports.
NextReport ==
    \/ \E d \in Docs \cup {"none"} : ChangeActiveEditor(d)
    \/ startAnalysis(1, "command", "none", ReportRuns)
    \/ \E proceed \in {"Analyze Anyway", "Cancel"} : AnswerTooLong(1, proceed, ReportRuns)
    \/ AnalyzeReturns(1)
    \/ AnalyzeFails(1)
    \/ UpdateCompletes(TRUE)
    \/ generateReport

SpecReport == InitEmpty /\ [][NextReport]_vars

\* Number of analyses and fix runs of the panel.
PanelRuns == 2

\* The panel: analyses of a document with text and of an empty one, one at a
\* time, the Auto-Fix button with every answer to its two requests, and
\* chat messages with every answer.
NextPanel ==
    \/ \E d \in {"b.ts", EmptyDocument} : StartAnalysis(1, d, PanelRuns)
    \/ AnalyzeReturns(1)
    \/ AnalyzeFails(1)
    \/ UpdateCompletes(TRUE)
    \/ FixCodeClicked(1, PanelRuns)
    \/ \E a \in FixAnswers : FixCodeSettles(1, a)
    \/ \E a \in SomeAnswersWith(AnalysisBodies({85})) : ReanalyzeSettles(1, a)
    \/ \E c \in ChatRuns : HandleChatMessage(c)
    \/ \E c \in ChatRuns : \E a \in ChatAnswers : ChatSettles(c, a)

SpecPanel == InitEmpty /\ [][NextPanel]_vars

\* Every request settles (makeRequest ends after its last attempt) and
\* every pending write completes; nothing obliges the user to start an
\* analysis, press a button or send a message.
FairSpecPanel ==
    /\ SpecPanel
    /\ WF_vars(AnalyzeReturns(1))
    /\ WF_vars(UpdateCompletes(TRUE))
    /\ WF_vars(\E a \in FixAnswers : FixCodeSettles(1, a))
    /\ WF_vars(\E a \in SomeAnswersWith(AnalysisBodies({85})) : ReanalyzeSettles(1, a))
    /\ WF_vars(\E c \in ChatRuns : \E a \in ChatAnswers : ChatSettles(c, a))

\* Concurrent calls of the operations of LLMClient, with every answer.
NextErr ==
    \/ \E i \in OpCalls : \E name \in OperationNames : CallOperation(i, name)
    \/ \E i \in OpCalls : \E a \in OperationAnswers : OperationSettles(i, a)

SpecErr == InitEmpty /\ [][NextErr]_vars

(***************************************************************************)
(* Claims about LLMClient.makeRequest                                      *)
(***************************************************************************)
Done(c) == pc[c] \in {"returned", "thrown"}

IsClientFault(a) == a.kind = "response" /\ a.status \in ClientFaults

IsServerFault(a) == a.kind = "response" /\ a.status \in ServerFaults

IsSuccess(a) == a.kind = "response" /\ a.status < 400

\* The error the attempt answered by a raises in the call c.
ErrorOfAttempt(c, a) == AttemptOutcome(MakeConfig(req[c]), a).error

\* C1: an attempt answered with a client-fault status (400, 401, 403, 404)
\* ends the call in failure at that attempt: no further attempt is sent and
\* no backoff wait is taken after it.
C1_ClientFaultFailsAtOnce ==
    \A c \in Calls : \A i \in 1..Len(replies[c]) :
        IsClientFault(replies[c][i]) =>
            /\ pc[c] = "thrown"
            /\ sent[c] = i
            /\ Len(delays[c]) = i - 1

\* C2: with max_retries = 2, when the first two attempts fail with a server
\* fault a third attempt is made, and when that one succeeds the call
\* returns its response and no error reaches the caller.
C2_SucceedsOnThirdAttempt ==
    \A c \in Calls :
        LET rs == replies[c] IN
        (Len(rs) >= 2 /\ IsServerFault(rs[1]) /\ IsServerFault(rs[2])) =>
            /\ Len(rs) = 2 => (pc[c] \in {"delaying", "sending"} /\ thrown[c] = NoError)
            /\ (Len(rs) = 3 /\ IsSuccess(rs[3])) =>
                   (pc[c] = "returned" /\ result[c] = rs[3].body /\ thrown[c] = NoError)

C2_Witness ==
    /\ pc[1] = "returned"
    /\ Len(replies[1]) = 3
    /\ IsServerFault(replies[1][1]) /\ IsServerFault(replies[1][2])
    /\ result[1] = "r2"

\* C3: every makeRequest call terminates: it sends at most max_retries + 1
\* attempts, each with a finite positive timeout, and a call that has been
\* started eventually returns a response or throws, never both.
C3_Terminates ==
    /\ [](\A c \in Calls :
            /\ sent[c] <= retryAttempts + 1
            /\ pc[c] = "sending" => inflight[c].timeout \in 1..defaultTimeout
            /\ pc[c] = "returned" => (result[c] # NoData /\ thrown[c] = NoError)
            /\ pc[c] = "thrown" => (thrown[c] # NoError /\ result[c] = NoData))
    /\ (pc[1] \in {"sending", "delaying"}) ~> Done(1)

C3_Witness ==
    pc[1] = "thrown" /\ sent[1] = retryAttempts + 1 /\ Len(replies[1]) = retryAttempts + 1

\* C4: an attempt that ends by timeout is retried, after the usual backoff
\* wait, when it is not the final attempt; when it is the final attempt the
\* call ends by throwing the timeout error.
C4_TimeoutIsTransient ==
    \A c \in Calls : \A i \in 1..Len(replies[c]) :
        replies[c][i].kind = "timeout" =>
            IF i <= retryAttempts
            THEN /\ Len(delays[c]) >= i
                 /\ \/ pc[c] = "delaying" /\ sent[c] = i
                    \/ sent[c] > i
            ELSE /\ pc[c] = "thrown"
                 /\ sent[c] = i
                 /\ thrown[c].code = "ECONNABORTED"
                 /\ Len(delays[c]) = i - 1

C4_Witness ==
    /\ pc[1] = "thrown"
    /\ Len(replies[1]) = 3
    /\ replies[1][1].kind = "timeout"
    /\ replies[1][3].kind = "timeout"

\* An error that names the endpoint and the number of attempts made.
Tagged(e, endpoint, n) ==
    /\ e.url = endpoint
    /\ "attempts" \in DOMAIN e
    /\ e.attempts = n

\* C5 (as stated): after the retries are exhausted the error surfaced is the
\* error of the last attempt, tagged with the endpoint and the number of
\* attempts made.
C5_LastErrorTagged ==
    \A c \in Calls :
        (pc[c] = "thrown" /\ sent[c] = retryAttempts + 1) =>
            /\ thrown[c] = ErrorOfAttempt(c, replies[c][Len(replies[c])])
            /\ Tagged(thrown[c], req[c].endpoint, sent[c])

\* C5 (amended): a call that throws surfaces the error of its last attempt
\* as it was raised: no attempt count is attached, and the endpoint is
\* present only as the request URL that the transport's own errors carry.
C5_LastErrorSurfaced ==
    \A c \in Calls :
        pc[c] = "thrown" =>
            /\ replies[c] # <<>>
            /\ thrown[c] = ErrorOfAttempt(c, replies[c][Len(replies[c])])
            /\ "attempts" \notin DOMAIN thrown[c]
            /\ thrown[c].url = IF thrown[c].isAxios THEN req[c].endpoint ELSE "none"

C5_Witness ==
    /\ pc[1] = "thrown"
    /\ sent[1] = retryAttempts + 1
    /\ replies[1][1].kind = "network"
    /\ replies[1][3].status = 503

Finished(c, rs) ==
    /\ rs # <<>>
    /\ \/ IsSuccess(rs[Len(rs)])
       \/ IsNoRetry(ErrorOfAttempt(c, rs[Len(rs)]))
       \/ Len(rs) = retryAttempts + 1

\* C7: concurrent makeRequest calls are independent: the number of attempts
\* of a call and its outcome are those its own replies determine, whatever
\* the other call does in between.
C7_CallsIndependent ==
    \A c \in Calls :
        LET rs == replies[c] IN
        /\ pc[c] # "idle" => (Done(c) <=> Finished(c, rs))
        /\ Done(c) => sent[c] = Len(rs)
        /\ pc[c] = "sending" => sent[c] = Len(rs) + 1
        /\ pc[c] = "delaying" => sent[c] = Len(rs)
        /\ pc[c] = "returned" => result[c] = rs[Len(rs)].body
        /\ pc[c] = "thrown" => thrown[c] = ErrorOfAttempt(c, rs[Len(rs)])

C7_Witness ==
    /\ pc[1] = "thrown" /\ sent[1] = 3
    /\ pc[2] = "returned" /\ sent[2] = 2
    /\ thrown[1].code = "ECONNABORTED"

(***************************************************************************)
(* Claims about the analysis history                                       *)
(***************************************************************************)
Min(a, b) == IF a < b THEN a ELSE b

\* C8: starting from an empty history, after K + n successful analyses
\* (K = 50) the history holds exactly the K most recent entries, most recent
\* first, the n oldest gone; its length never exceeds K.
C8_HistoryCapacity ==
    /\ Len(analysisHistory) <= 50
    /\ Len(analysisHistory) = Min(now, 50)
    /\ \A i \in 1..Len(analysisHistory) : analysisHistory[i].timestamp = now + 1 - i
    /\ analysisHistory = Take(log, 50)

C8_Witness ==
    /\ now = HistoryCap + ExtraRuns
    /\ Len(log) = HistoryCap + ExtraRuns
    /\ Len(analysisHistory) = HistoryCap
    /\ analysisHistory[1].timestamp = HistoryCap + ExtraRuns
    /\ analysisHistory[HistoryCap].timestamp = ExtraRuns + 1

\* C9: every append (and clear) hands the whole in-memory history to the
\* storage, the storage holds the history as it was after the last append
\* or clear whose write completed, and activation loads exactly that.
C9_HistoryPersisted ==
    /\ [](stored = lastCompleted)
    /\ [][Len(writes') > Len(writes) =>
             writes'[Len(writes')].value = analysisHistory']_vars
    /\ [][activations' # activations =>
             (analysisHistory' = stored /\ analysisHistory' = lastCompleted)]_vars

C9_Witness ==
    /\ activations = 1
    /\ Len(analysisHistory) = HistoryCap
    /\ analysisHistory[1].timestamp = HistoryCap + 1
    /\ now = HistoryCap + 2

ClearEnds == clearPc = "saving" /\ clearPc' = "idle" /\ activations' = activations

ClearDeclined == clearPc = "confirming" /\ clearPc' = "idle" /\ activations' = activations

\* C10 (as stated): when the user confirms, the in-memory history and the
\* persisted history are both empty once clearAnalysisHistory is over; when
\* the user does not confirm, both are unchanged.
C10_ClearLeavesBothEmpty ==
    [][/\ ClearEnds => (analysisHistory' = <<>> /\ stored' = <<>>)
       /\ ClearDeclined => UNCHANGED <<analysisHistory, stored>>]_vars

\* C10 (amended): when the user confirms, the in-memory history is emptied
\* at once and an empty history is handed to the storage; the persisted
\* history is empty when that write succeeds and keeps its value when it is
\* rejected; when the user does not confirm, both are unchanged and nothing
\* is written.
C10_ClearEffects ==
    [][/\ (clearPc = "confirming" /\ clearPc' = "saving") =>
              /\ analysisHistory' = <<>>
              /\ writes' = Append(writes, writes'[Len(writes')])
              /\ writes'[Len(writes')].value = <<>>
              /\ stored' = stored
       /\ (ClearEnds /\ clearNotice' = "cleared") =>
              (stored' = <<>> /\ analysisHistory' = analysisHistory)
       /\ (ClearEnds /\ clearNotice' = "rejected") =>
              (stored' = stored /\ analysisHistory' = analysisHistory)
       /\ ClearDeclined => UNCHANGED <<analysisHistory, stored, writes>>]_vars

C10_Witness ==
    /\ clearNotice = "cleared"
    /\ clearPc = "idle"
    /\ now >= HistoryCap - 1
    /\ stored = <<>>
    /\ analysisHistory = <<>>

(***************************************************************************)
(* Claims about startAnalysis and the panel                                *)
(***************************************************************************)
\* The write at the head of the queue belongs to the append of activation t
\* and this step rejects it.
AppendWriteRejected(t) ==
    /\ task[t].pc = "saving"
    /\ writes # <<>>
    /\ Head(writes).owner = t
    /\ writes' = Tail(writes)
    /\ stored' # Head(writes).value
    /\ activations' = activations

\* C11: when the persistence write of a history append fails, the analysis
\* still proceeds with the in-memory state: the result stays the current
\* result, the panel is updated with the result, and the analysis is not
\* reported as failed.
C11_WriteFailureTolerated ==
    [][\A t \in Tasks :
          AppendWriteRejected(t) =>
              /\ lastAnalysisResult' = lastAnalysisResult
              /\ analysisHistory' = analysisHistory
              /\ panel'.result = task[t].run
              /\ statusBar' # "failed"]_vars

\* The answer a to the fix request is a failure of the fix: a transport
\* error, a fault status, success = false or no fixed code.
IsFixFailure(a) ==
    \/ a.kind # "response"
    \/ a.status >= 400
    \/ ~a.body.success
    \/ "fixed_code" \notin DOMAIN a.body
    \/ a.body.fixed_code = ""

\* C12: fixCode never rejects: whatever the failure of the fix request (a
\* transport error, a client or server fault, success = false, an empty or
\* missing fixed_code), it returns exactly the source text it was given.
C12_FixCodeNeverRejects ==
    \A f \in FixRuns :
        fix[f].fixReply # NoAnswer =>
            /\ fix[f].notice # "Fix failed"
            /\ fix[f].fixedCode # "none"
            /\ IsFixFailure(fix[f].fixReply) => fix[f].fixedCode = fix[f].given
            /\ ~IsFixFailure(fix[f].fixReply) => fix[f].fixedCode = fix[f].fixReply.body.fixed_code

C12_Witness ==
    /\ fix[1].pc = "reanalyzing"
    /\ fix[1].fixReply.status = 200
    /\ fix[1].fixReply.body = [success |-> TRUE, fixed_code |-> ""]
    /\ fix[1].given = "b.ts"
    /\ fix[1].fixedCode = "b.ts"
    /\ panel.code = "b.ts"

\* The requests of the fix run f that are in flight.
InFlightOf(f) == { w \in wire : w.run = f }

\* C13: in one run of the fix flow the re-analysis request is sent only
\* after the fix request of that run has completed, and it carries the code
\* returned by that fix; the two requests of a run are never in flight at
\* the same time.
C13_FixThenReanalyze ==
    \A f \in FixRuns :
        /\ Cardinality(InFlightOf(f)) <= 1
        /\ \A w \in InFlightOf(f) :
              /\ w.endpoint = "/fix" =>
                     (fix[f].pc = "fixing" /\ fix[f].fixReply = NoAnswer /\ w.code = fix[f].given)
              /\ w.endpoint = "/analyze" =>
                     /\ fix[f].pc = "reanalyzing"
                     /\ fix[f].fixReply # NoAnswer
                     /\ w.code = fix[f].fixedCode
                     /\ ~IsFixFailure(fix[f].fixReply) => w.code = fix[f].fixReply.body.fixed_code
        /\ fix[f].pc = "fixing" => \E w \in InFlightOf(f) : w.endpoint = "/fix"
        /\ fix[f].pc = "reanalyzing" => \E w \in InFlightOf(f) : w.endpoint = "/analyze"
        /\ fix[f].pc = "idle" => InFlightOf(f) = {}

C13_Witness ==
    /\ fix[1].pc = "reanalyzing"
    /\ fix[1].given = "b.ts"
    /\ wire = {[run |-> 1, endpoint |-> "/analyze", code |-> "fixed"]}

\* C14: stale responses are not applied: when an analysis is started, then
\* a newer one, and the older response arrives after the newer one, the
\* older response replaces neither the current analysis result nor the
\* result and code stored in the panel.
C14_StaleResponseDiscarded ==
    [][\A t \in Tasks :
          /\ (task[t].pc = "analyzing" /\ task'[t].pc = "saving"
                  /\ task[t].run < lastAnalysisResult) =>
                 lastAnalysisResult' = lastAnalysisResult
          /\ (task[t].pc = "saving" /\ task'[t].pc = "idle"
                  /\ activations' = activations /\ task[t].run < panel.result) =>
                 panel' = panel]_vars

\* No clear has been asked for since activation.
NeverCleared == clearPc = "idle" /\ clearNotice = "none"

\* The analyses whose analyzeCode has resolved.
Succeeded == runs - Cardinality({ t \in Tasks : task[t].pc = "analyzing" })

\* C15: history appends are serialized: for every interleaving of n
\* concurrent successful analyses no append is lost or duplicated, the
\* in-memory history gains exactly n entries (up to the capacity), and once
\* all the writes have completed the persisted history equals the in-memory
\* history.
C15_AppendsSerialized ==
    /\ [](analysisHistory = Take(log, HistoryCap))
    /\ [](\A i \in 1..Len(log) : \A j \in 1..Len(log) :
              i < j => log[i].timestamp > log[j].timestamp)
    /\ [](NeverCleared =>
              /\ Len(log) = (HistoryCap - 1) + Succeeded
              /\ Len(analysisHistory) = Min((HistoryCap - 1) + Succeeded, HistoryCap))
    /\ [](writes = <<>> => stored = analysisHistory)
    /\ [][\A t \in Tasks :
             (task[t].pc = "analyzing" /\ task'[t].pc = "saving") =>
                 /\ Len(log') = Len(log) + 1
                 /\ analysisHistory' = Take(<<log'[1]>> \o analysisHistory, HistoryCap)
                 /\ writes' = Append(writes, writes'[Len(writes')])
                 /\ writes'[Len(writes')].value = analysisHistory']_vars

C15_Witness ==
    /\ Len(writes) = 2
    /\ task[1].pc = "saving" /\ task[2].pc = "saving"
    /\ task[1].doc # task[2].doc
    /\ NeverCleared
    /\ Len(log) = HistoryCap + 1
    /\ Len(analysisHistory) = HistoryCap

(***************************************************************************)
(* Claims about the diagnostics                                            *)
(***************************************************************************)
\* The step in which analyzeCode resolves for the activation t.
ResultArrives(t) == task[t].pc = "analyzing" /\ task'[t].pc = "saving"

\* That step called showDiagnostics (showInlineErrors was set).
ShownInStep(t) == diagnostics'[task[t].doc] = task[t].run

\* The diagnostics of the document of t are those of its result.
Shows(t) == task[t].pc = "saving" /\ diagnostics[task[t].doc] = task[t].run

\* C16 (as stated): diagnostics are replaced, not merged: after an analysis
\* of document D with findings F the diagnostic set of D is exactly the
\* mapping of F, whatever D's previous set was, and it never holds
\* duplicated entries.
C16_DiagnosticsReplaced ==
    [][\A t \in Tasks :
          ResultArrives(t) =>
              /\ diagnosticCollection'[task[t].doc] = showDiagnostics(analysisResult'[t].issues)
              /\ Len(diagnosticCollection'[task[t].doc]) = Len(analysisResult'[t].issues)]_vars

\* C16 (amended): when showInlineErrors is set, after an analysis of D with
\* findings F the diagnostic set of D is exactly the mapping of F, whatever
\* it was before (mapping the same F again leaves the same set); when it is
\* not set, the analysis maps nothing and D keeps the set it had. A set
\* never holds more entries than one result has findings.
C16_ReplacedWhenShown ==
    /\ [][\A t \in Tasks :
             ResultArrives(t) =>
                 IF ShownInStep(t)
                 THEN /\ diagnosticCollection'[task[t].doc] =
                             showDiagnostics(analysisResult'[t].issues)
                      /\ Len(diagnosticCollection'[task[t].doc]) =
                             Len(analysisResult'[t].issues)
                 ELSE diagnosticCollection' = diagnosticCollection]_vars
    /\ [](\A d \in Docs : Len(diagnosticCollection[d]) <= MaxIssues)

C16_Witness ==
    /\ Shows(2)
    /\ task[1].pc = "saving" /\ task[1].doc = task[2].doc
    /\ Len(writes) = 2 /\ writes[1].owner = 1
    /\ analysisResult[1].issues = <<[line |-> 1, severity |-> "warning"],
                                    [line |-> 1, severity |-> "warning"]>>
    /\ analysisResult[2].issues = <<[line |-> 2, severity |-> "error"]>>
    /\ diagnosticCollection["a.py"] = <<[line |-> 1, severity |-> "Error", tags |-> "none"]>>

\* C17: showDiagnostics produces exactly one diagnostic per finding, and the
\* line of every diagnostic lies in [0, lineCount - 1] (1-based: in
\* [1, lineCount]): a finding with line 0, a negative line, no line or a
\* line beyond the end of the document is clamped into the range, never
\* dropped.
C17_LinesClamped ==
    \A t \in Tasks :
        Shows(t) =>
            LET ds == diagnosticCollection[task[t].doc] IN
            /\ Len(ds) = Len(analysisResult[t].issues)
            /\ \A k \in 1..Len(ds) : ds[k].line \in 0..(LineCount - 1)

\* C18: the severity mapping is total over the four source levels and
\* collapses them to three host levels: critical and error map to Error,
\* warning maps to Warning, info maps to Information.
C18_SeverityMapping ==
    /\ \A v \in Severities : DiagnosticSeverity(v) \in {"Error", "Warning", "Information"}
    /\ \A t \in Tasks :
          Shows(t) =>
              LET ds == diagnosticCollection[task[t].doc]
                  fs == analysisResult[t].issues
              IN
              /\ Len(ds) = Len(fs)
              /\ \A k \in 1..Len(fs) :
                    /\ fs[k].severity \in {"critical", "error"} => ds[k].severity = "Error"
                    /\ fs[k].severity = "warning" => ds[k].severity = "Warning"
                    /\ fs[k].severity = "info" => ds[k].severity = "Information"

C18_Witness ==
    /\ Shows(1)
    /\ analysisResult[1].issues = <<[line |-> 1, severity |-> "error"], [line |-> 1, severity |-> "info"]>>
    /\ diagnosticCollection["a.py"][1].severity = "Error"
    /\ diagnosticCollection["a.py"][2].severity = "Information"

(***************************************************************************)
(* Claims about the errors of the operations and about the grading         *)
(***************************************************************************)
HasPiece(msg, text) == \E k \in 1..Len(msg) : msg[k] = text

\* The answer a makes the operation fail.
IsFailure(name, a) ==
    \/ a.kind # "response"
    \/ a.status >= 400
    \/ ~a.body.success
    \/ (name = "getStatistics" /\ a.body.statistics = "")

\* The message tells why the operation failed: the HTTP status of the
\* fault, the refusal of the response, or that the backend was not reached.
CarriesCause(msg, name, a) ==
    IF a.kind # "response" THEN HasPiece(msg, "Cannot connect to backend server at ")
    ELSE IF a.status >= 400 THEN HasPiece(msg, ToString(a.status))
    ELSE HasPiece(msg, Refusal(name))

\* C19 (as stated): every failure of analyzeCode, generateReport,
\* getStatistics or getRules (a client fault, a server fault, an unreachable
\* backend) reaches the caller as a single Error whose message carries the
\* name of the failed operation and the underlying cause.
C19_ErrorNamesOperationAndCause ==
    \A i \in OpCalls :
        (op[i].pc \in {"returned", "thrown"} /\ IsFailure(op[i].name, op[i].reply)) =>
            /\ op[i].pc = "thrown"
            /\ HasPiece(op[i].message, Label(op[i].name))
            /\ CarriesCause(op[i].message, op[i].name, op[i].reply)

\* The answers for which handleError replaces the message by a fixed text.
HasFixedText(a) == a.kind # "response" \/ a.status \in {500, 503}

\* C19 (amended): every failure of the four operations reaches the caller
\* as a single Error. Its message carries the operation name and the cause
\* (the HTTP status, or the refusal of the response) for a client fault, a
\* refused response and a server fault other than 500 and 503; for 500 and
\* 503 it is a fixed text about the server, and for a backend that gave no
\* response it is a fixed text with the server URL, both without the
\* operation name.
C19_ErrorMessages ==
    \A i \in OpCalls :
        LET a == op[i].reply
            msg == op[i].message
        IN
        /\ op[i].pc \in {"returned", "thrown"} =>
              (op[i].pc = "thrown" <=> IsFailure(op[i].name, a))
        /\ op[i].pc = "thrown" =>
              /\ msg # <<>>
              /\ HasPiece(msg, Label(op[i].name)) <=> ~HasFixedText(a)
              /\ ~HasFixedText(a) => CarriesCause(msg, op[i].name, a)
              /\ a.kind # "response" =>
                     (CarriesCause(msg, op[i].name, a) /\ HasPiece(msg, serverUrl))
              /\ (a.kind = "response" /\ a.status = 500) =>
                     msg = <<"Server error. Check backend logs for details.">>
              /\ (a.kind = "response" /\ a.status = 503) =>
                     msg = <<"Service unavailable. Backend AI service may be down.">>

C19_Witness ==
    /\ op[1].pc = "thrown" /\ op[1].name = "getStatistics" /\ op[1].reply.status = 401
    /\ op[1].message = <<"Statistics fetch", " failed: ", "HTTP", " ", "401">>
    /\ op[2].pc = "thrown" /\ op[2].name = "analyzeCode" /\ op[2].reply.kind = "timeout"
    /\ ~HasPiece(op[2].message, "Code analysis")

\* The band a display puts a score in: 1 the best, 3 the worst.
BandRank(shown) ==
    CASE shown \in {"check", "Excellent"} -> 1
      [] shown \in {"warning", "Needs Improvement"} -> 2
      [] shown \in {"error", "Poor"} -> 3

\* The step in which startAnalysis shows its result in the panel and in the
\* status bar.
AnalysisShown(t) ==
    /\ task[t].pc = "saving" /\ task'[t].pc = "idle"
    /\ statusBar' \in {"check", "warning", "error"}

\* The step in which handleFixCode shows the result of the re-analysis.
ReanalysisShown(f) ==
    /\ fix[f].pc = "reanalyzing" /\ fix'[f].pc = "idle"
    /\ fix'[f].notice = "Score updated"

\* C20: the three-band grading is a single step function of the score:
\* every score is placed in the same band on the analyze path (status bar
\* and panel) and on the post-fix re-analyze path (panel).
C20_SameBandOnEveryPath ==
    [][/\ \A t \in Tasks :
             AnalysisShown(t) =>
                 /\ webview'.score = analysisResult[t].score
                 /\ BandRank(statusBar') = BandRank(webview'.rating)
       /\ \A f \in FixRuns :
             ReanalysisShown(f) =>
                 BandRank(webview'.rating) = BandRank(StatusBarBand(webview'.score))]_vars

Failed == [ok |-> FALSE, value |-> <<>>]

DirectParse(r) == IF startswith(strip(r), "[") THEN json_loads(r) ELSE Failed

FenceStripping(r) == DirectParse(replace(replace(r, "fence json"), "fence"))

Extraction(r) == IF re_search(r) # <<>> THEN json_loads(re_search(r)) ELSE Failed

FirstSuccess(r) ==
    IF DirectParse(r).ok THEN DirectParse(r).value
    ELSE IF FenceStripping(r).ok THEN FenceStripping(r).value
    ELSE IF Extraction(r).ok THEN Extraction(r).value
    ELSE EmptyList

\* C22: parse applies its strategies in order and the first success wins:
\* a reply is parsed by direct parse, else by fence stripping and direct
\* parse, else by extraction of an array-shaped substring, so that a stage
\* that does not succeed hands the reply to the next stage; an array wrapped
\* in a fenced block of prose yields the same findings as the bare array.
C22_FirstSuccessWins ==
    parsed.pc = "done" =>
        /\ parsed.out.value = FirstSuccess(parsed.reply)
        /\ \A pre \in Preambles, a \in BareArrays, post \in Postscripts :
               parsed.reply = Fenced(pre, a, post) =>
                   parsed.out.value = json_loads(a).value

\* No stage of the strategy finds an array in the reply.
NoParseableArray(r) ==
    ~DirectParse(r).ok /\ ~FenceStripping(r).ok /\ ~Extraction(r).ok

\* C23: a degraded parse is distinguishable from a clean result: for a
\* reply with no parseable array, parse returns an empty list together with
\* a degraded signal that the caller can observe, so that an unparseable
\* reply is never reported as a file with zero issues.
C23_DegradedIsDistinguishable ==
    (parsed.pc = "done" /\ NoParseableArray(parsed.reply)) =>
        /\ parsed.out.value = EmptyList
        /\ CallerSees(parsed.out) # CallerSees(parse_llm_response(EmptyList))

ExtensionOf(d) ==
    IF Len(SplitName(d)) > 1 THEN toLowerCase(Pop(SplitName(d))) ELSE "none"

\* startAnalysis of activation t returns in this step without an analysis.
Refuses(t) ==
    /\ gate'[t] # gate[t]
    /\ gate'[t].pc \in {"no editor", "unsupported", "cancelled"}

\* C25: startAnalysis sends an analyze request only when there is an active
\* editor and the extension of its file is in the supported set; otherwise
\* no request is sent and diagnostics, history and the current result are
\* unchanged.
C25_OnlySupportedFilesAnalyzed ==
    /\ [](\A t \in Tasks :
              task[t].pc = "analyzing" =>
                  /\ gate[t].doc # "none"
                  /\ task[t].doc = gate[t].doc
                  /\ ExtensionOf(task[t].doc) \in SUPPORTED_LANGUAGES)
    /\ [][\A t \in Tasks :
              Refuses(t) =>
                  /\ task'[t].pc = "idle"
                  /\ UNCHANGED <<diagnostics, diagnosticCollection, analysisHistory,
                                 stored, writes, lastAnalysisResult, panel>>]_vars

\* C26: line-count gate: a document with more lines than the configured
\* maximum is analyzed only after the user chooses 'Analyze Anyway', and a
\* save triggers an analysis only when the auto-analyze flag is on, the
\* saved document has at most the maximum number of lines and its extension
\* is supported.
C26_LineCountGate ==
    \A t \in Tasks :
        /\ (task[t].pc = "analyzing" /\ lineCount(task[t].doc) > gate[t].maxLines)
               => gate[t].proceed = "Analyze Anyway"
        /\ gate[t].via = "save"
               => /\ gate[t].autoAnalyze
                  /\ lineCount(gate[t].saved) <= gate[t].maxLines
                  /\ ExtensionOf(gate[t].saved) \in SUPPORTED_LANGUAGES

\* The save of a short document has started the analysis of the long
\* document of the active editor, after the user chose 'Analyze Anyway'.
C26_Witness ==
    /\ task[1].pc = "analyzing"
    /\ task[1].doc = "b.ts"
    /\ gate[1].via = "save"
    /\ gate[1].saved = "a.py"
    /\ gate[1].proceed = "Analyze Anyway"

\* The step in which the catch block of startAnalysis runs for the
\* activation t because analyzeCode rejected.
AnalysisFailed(t) ==
    /\ task[t].pc = "analyzing"
    /\ task'[t].pc = "idle"
    /\ statusBar' = "failed"

\* The step in which the activation t starts its analysis.
AnalysisStarted(t) == task[t].pc = "idle" /\ task'[t].pc = "analyzing"

\* C27: a failed analysis (analyzeCode rejects) changes no result state: the
\* in-memory and persisted history, lastAnalysisResult and the panel's
\* stored result and code are the same as before the analysis was started
\* (neither its start nor its failure changes any of them).
C27_FailureChangesNothing ==
    [][\A t \in Tasks :
          (AnalysisStarted(t) \/ AnalysisFailed(t)) =>
              UNCHANGED <<analysisHistory, stored, writes, lastAnalysisResult, panel>>]_vars

\* An analysis has failed after another had left its result in the
\* history, in lastAnalysisResult and in the panel.
C27_Witness ==
    /\ statusBar = "failed"
    /\ \A t \in Tasks : task[t].pc = "idle"
    /\ analysisHistory # <<>>
    /\ stored # <<>>
    /\ lastAnalysisResult # 0
    /\ panel.result # 0

\* C28: analyzing one document leaves the diagnostics of every other
\* document unchanged, for every order in which analyses of different
\* documents start and complete.
C28_OtherDocumentsUntouched ==
    [][\A t \in Tasks :
          (task'[t] # task[t] /\ task'[t].pc \in {"analyzing", "saving"}) =>
              \A d \in Docs \ {task'[t].doc} :
                  diagnosticCollection'[d] = diagnosticCollection[d]]_vars

\* C29: after a fix followed by a successful re-analysis, the refreshed
\* result is the current analysis result everywhere: the extension's
\* lastAnalysisResult (used by report and export) equals the panel's
\* currentAnalysisResult.
C29_RefreshedResultEverywhere ==
    [][\A f \in FixRuns :
          ReanalysisShown(f) => lastAnalysisResult' = panel'.result]_vars

\* C30: when the fix request fails, handleFixCode reports the failure (an
\* 'error' message to the panel) and posts no 'codeFixed' message and sends
\* no re-analysis request.
C30_FailedFixReported ==
    \A f \in FixRuns :
        (fix[f].fixReply # NoAnswer /\ IsFixFailure(fix[f].fixReply)) =>
            /\ fix[f].notice = "Fix failed"
            /\ fix[f].pc # "reanalyzing"
            /\ \A w \in InFlightOf(f) : w.endpoint # AnalyzeRequest.endpoint

(***************************************************************************)
(* Claims about the panel's message handlers                               *)
(***************************************************************************)
\* The step in which the re-analysis of the fix run f fails.
ReanalysisFails(f) ==
    fix[f].pc = "reanalyzing" /\ fix'[f].pc = "idle" /\ fix'[f].notice # "Score updated"

\* The step in which the fix of the run f is applied.
FixApplied(f) == fix[f].pc = "fixing" /\ fix'[f].pc = "reanalyzing"

\* C31: when the re-analysis after a fix fails, the fix stays applied and
\* the failure is silent: currentCode is the fixed code, 'codeFixed' has
\* been posted, currentAnalysisResult is unchanged and no 'error' message
\* is posted.  The fixed code becomes currentCode when 'codeFixed' is
\* posted, and the failure of the re-analysis changes neither the code nor
\* the result of the panel and posts nothing.
C31_ReanalysisFailsSilently ==
    [][\A f \in FixRuns :
          /\ FixApplied(f) =>
                 /\ panel'.code = fix'[f].fixedCode
                 /\ fixMessages'[f] = <<"fixing", "codeFixed">>
          /\ ReanalysisFails(f) =>
                 /\ panel' = panel
                 /\ fixMessages[f] = <<"fixing", "codeFixed">>
                 /\ fixMessages'[f] = fixMessages[f]
                 /\ chatInput' = chatInput
                 /\ webview' = webview]_vars

C31_Witness ==
    /\ fix[1].pc = "idle"
    /\ fix[1].notice = "Code fixed"
    /\ fixMessages[1] = <<"fixing", "codeFixed">>
    /\ panel.code = "fixed"
    /\ panel.result = 1
    /\ analysed = "b.ts"

\* C32: whenever the panel disables its chat input (on sending a fix
\* request, or on a 'thinking' or 'fixing' message), a later 'chatReply',
\* 'codeFixed' or 'error' message enables it again; the input never stays
\* disabled for ever.
C32_InputEnabledAgain ==
    (chatInput = "disabled") ~> (chatInput = "enabled")

\* C33: chat never rejects: for every outcome of the chat request it
\* returns a reply string, so each chat message handled by the panel
\* produces one 'thinking' message followed by exactly one 'chatReply'
\* message.
C33_ChatAlwaysReplies ==
    \A c \in ChatRuns :
        /\ chats[c].pc = "thinking" => chats[c].posted = <<"thinking">>
        /\ chats[c].pc = "idle" =>
               chats[c].posted \in {<<>>, <<"thinking", "chatReply">>}
        /\ (chats[c].pc = "idle" /\ chats[c].posted # <<>>) => chats[c].reply # "none"

C33_Witness ==
    /\ chats[1].pc = "idle"
    /\ chats[1].posted = <<"thinking", "chatReply">>
    /\ chats[1].reply = "I cannot reach the backend server. Please ensure it is running and try again."

\* The step in which handleFixCode is entered by the fix run f.
FixRequested(f) == fix[f].pc = "idle" /\ fix'[f] # fix[f]

\* C34: handleFixCode sends a fix request only when the panel holds an
\* analysis result and non-empty code; otherwise no request is sent and the
\* panel's stored code and result are unchanged.
C34_FixOnlyWithResultAndCode ==
    [][\A f \in FixRuns :
          FixRequested(f) =>
              IF panel.result # 0 /\ panel.code \notin {"none", ""}
              THEN wire' = wire \cup {[run |-> f, endpoint |-> "/fix", code |-> panel.code]}
              ELSE wire' = wire /\ panel' = panel /\ fix'[f].pc = "idle"]_vars

C34_Witness ==
    /\ fix[1].notice = "No analysis results to fix"
    /\ panel.result # 0
    /\ panel.code = ""
    /\ wire = {}

\* C35: in every reachable state of the panel, including after repeated or
\* overlapping fix runs, currentAnalysisResult is the analysis of
\* currentCode, so the issues sent with a fix request are always the issues
\* found in the code sent with it.
C35_ResultIsOfCurrentCode ==
    panel.result # 0 => analysed = panel.code

(***************************************************************************)
(* Claims about the report and about the analysis on save                  *)
(***************************************************************************)
\* C36: generateReport sends issues, score and grade that belong to the
\* same document whose source text it sends, for every sequence of analyses
\* and active-editor changes before it.
C36_ReportOfOneDocument ==
    [][report' # report =>
          /\ report'.result = lastAnalysisResult
          /\ report'.fileName = resultDocument
          /\ report'.code = getText(resultDocument)]_vars

\* C37: an analysis triggered by saving a document analyzes that saved
\* document: the code sent and the document that receives the diagnostics
\* are the saved one, also when another editor is active at the time of the
\* save.
C37_SavedDocumentAnalyzed ==
    \A t \in Tasks :
        (gate[t].via = "save" /\ task[t].pc \in {"analyzing", "saving"}) =>
            /\ task[t].doc = gate[t].saved
            /\ task[t].pc = "saving" => diagnostics[gate[t].saved] = task[t].run

====
